---- MODULE Spec2Model ----
(***************************************************************************)
(* A model of the crt-subpixel rendering / synchronisation pipeline:       *)
(*   - SubpixelRenderer (dimension and density arithmetic),                *)
(*   - the subpixel fragment shader (interlace gate, channel isolation),   *)
(*   - SettingsManager / GpuContext uniform mirror,                        *)
(*   - GpuContext init / destroy and its accessors,                        *)
(*   - CameraManager and the CameraProcessor frame loop,                   *)
(*   - ImageProcessor.export and the capture protocol.                     *)
(* Numbers are JavaScript numbers in the source; the model keeps them as   *)
(* integers and states where IEEE rounding can change an outcome.  A number *)
(* a caller passes to a pixel density setter is given in halves (3 stands  *)
(* for 1.5), so that Math.floor has something to do.                       *)
(***************************************************************************)
EXTENDS Integers, Sequences, FiniteSets, TLC

(***************************************************************************)
(* Bounds of the model.                                                    *)
(***************************************************************************)
MaxDim == 5
MaxDensity == 5
MaxTarget == 7
MaxFrames == 2         \* frames one camera run may render
MaxExports == 2        \* exportFrame calls made in one behaviour
MaxStreams == 2        \* camera streams acquired in one behaviour
MaxImageExports == 1   \* ImageProcessor.export calls in flight at once
MaxDevices == 2        \* GPU devices requested in one behaviour
MaxCanvases == 2       \* canvas elements passed to CanvasManager.configure

(***************************************************************************)
(* Arithmetic helpers.                                                     *)
(***************************************************************************)
Abs(x) == IF x < 0 THEN -x ELSE x

Max(a, b) == IF a >= b THEN a ELSE b

\* Math.floor of a number given in halves.
MathFloor(halves) == halves \div 2

\* The value that stands for a thrown Error.
Threw == [threw |-> TRUE]

(***************************************************************************)
(* Value objects.                                                          *)
(***************************************************************************)
\* new Dimensions(width, height): throws unless both are positive.
Dimensions(width, height) ==
    IF width <= 0 \/ height <= 0
    THEN Threw
    ELSE [threw |-> FALSE, width |-> width, height |-> height]

\* PixelDensity.create / PixelDensity.from on an integer: max(MIN_VALUE, floor(value)).
PixelDensityFrom(value) == Max(1, value)

(***************************************************************************)
(* SubpixelRenderer.                                                       *)
(***************************************************************************)
\* Math.floor((n / density) * 3) for positive integers n, density.  The
\* double-precision value of (n / density) * 3 lies within one ulp of
\* 3n/density, floor of it is floor(3n/density): a non-integer 3n/density is
\* at least 1/density away from an integer, and an integer one is reproduced
\* exactly (x/3*3 = x in round-to-nearest).
ExpandedLength(n, density) == (3 * n) \div density

\* SubpixelRenderer.calculateOutputDimensions(input, pixelDensity)
calculateOutputDimensions(input, density) ==
    Dimensions(ExpandedLength(input.width, density),
               ExpandedLength(input.height, density))

\* The pairs <<Math.floor(ideal), Math.ceil(ideal)>> that
\* ideal = height / (targetHeight / 3) can produce in double precision.
\* targetHeight / 3 is exact when 3 divides targetHeight; otherwise it is
\* rounded, and an ideal density that is mathematically the integer q may
\* come out one ulp below or above q (height 35, target 7 gives
\* 14.999999999999998).  A non-integer quotient never crosses an integer.
IdealRoundings(height, targetHeight) ==
    LET q == (3 * height) \div targetHeight
        exact == (3 * height) % targetHeight = 0
    IN  IF ~exact THEN {<<q, q + 1>>}
        ELSE IF targetHeight % 3 = 0 THEN {<<q, q>>}
        ELSE {<<q - 1, q>>, <<q, q>>, <<q, q + 1>>}

calculatePixelDensityForTargetHeight_CeilOnTies(height, targetHeight, ideal) ==
    LET densityFloor == Max(1, ideal[1])
        densityCeil == Max(1, ideal[2])
        diffFloor == Abs(ExpandedLength(height, densityFloor) - targetHeight)
        diffCeil == Abs(ExpandedLength(height, densityCeil) - targetHeight)
    IN  IF diffFloor < diffCeil THEN densityFloor ELSE densityCeil

calculatePixelDensityForTargetHeight_FloorOnly(height, targetHeight, ideal) ==
    Max(1, ideal[1])

\* SubpixelRenderer.calculatePixelDensityForTargetHeight(input, targetHeight);
\* ideal is <<Math.floor(idealDensity), Math.ceil(idealDensity)>>.
calculatePixelDensityForTargetHeight(height, targetHeight, ideal) ==
    LET densityFloor == Max(1, ideal[1])
        densityCeil == Max(1, ideal[2])
        outputFloor == ExpandedLength(height, densityFloor)
        outputCeil == ExpandedLength(height, densityCeil)
        diffFloor == Abs(outputFloor - targetHeight)
        diffCeil == Abs(outputCeil - targetHeight)
    IN  IF diffFloor <= diffCeil THEN densityFloor ELSE densityCeil

(***************************************************************************)
(* GpuContext uniform writers (the buffers are one record, uniforms).      *)
(***************************************************************************)
InitialUniforms_FieldEven ==
    [outputDims |-> <<1, 1>>, inputDims |-> <<1, 1>>, orientation |-> 0,
     pixelDensity |-> 1, interlaced |-> 0, field |-> 0]

\* The values init() creates the six uniform buffers with.
InitialUniforms ==
    [outputDims |-> <<1, 1>>, inputDims |-> <<1, 1>>, orientation |-> 0,
     pixelDensity |-> 1, interlaced |-> 0, field |-> 1]

\* GpuContext.writeOutputDimensions(dimensions)
writeOutputDimensions(u, dims) ==
    [u EXCEPT !.outputDims = <<dims.width, dims.height>>]

\* GpuContext.writeInputDimensions(dimensions)
writeInputDimensions(u, dims) ==
    [u EXCEPT !.inputDims = <<dims.width, dims.height>>]

\* GpuContext.writeOrientation(isRows)
writeOrientation(u, isRows) ==
    [u EXCEPT !.orientation = IF isRows THEN 1 ELSE 0]

\* GpuContext.writePixelDensity(density)
writePixelDensity(u, density) ==
    [u EXCEPT !.pixelDensity = Max(1, density)]

\* GpuContext.writeInterlaced(enabled)
writeInterlaced(u, enabled) ==
    [u EXCEPT !.interlaced = IF enabled THEN 1 ELSE 0]

\* GpuContext.writeField(isOdd)
writeField(u, isOdd) ==
    [u EXCEPT !.field = IF isOdd THEN 1 ELSE 0]

(***************************************************************************)
(* The subpixel fragment shader.  Colours are <<r, g, b, a>>.              *)
(***************************************************************************)
Black == <<0, 0, 0, 1>>

IsolateChannel_GreenBlueSwapped(blockPos, inputColor) ==
    IF blockPos = 0 THEN <<inputColor[1], 0, 0, inputColor[4]>>
    ELSE IF blockPos = 1 THEN <<0, 0, inputColor[3], inputColor[4]>>
    ELSE <<0, inputColor[2], 0, inputColor[4]>>

\* Channel isolation by block position (the shader's final if / else chain).
IsolateChannel(blockPos, inputColor) ==
    IF blockPos = 0 THEN <<inputColor[1], 0, 0, inputColor[4]>>
    ELSE IF blockPos = 1 THEN <<0, inputColor[2], 0, inputColor[4]>>
    ELSE <<0, 0, inputColor[3], inputColor[4]>>

\* The fragment function of createSubpixelFragment for the output pixel
\* (px, py) = (u32(pixelCoord.x), u32(pixelCoord.y)); inputColor is what
\* textureSampleBaseClampToEdge returned for this fragment.
SubpixelFragment(px, py, u, inputColor) ==
    LET blockX == px % 3
        blockY == py % 3
        blockPos == IF u.orientation = 1 THEN blockY ELSE blockX
        logicalPixelRowIndex == py \div 3
        pixelRowField == logicalPixelRowIndex % 2
        selectedField == u.field
        shouldSkip == pixelRowField # selectedField
    IN  IF u.interlaced = 1 /\ shouldSkip
        THEN Black
        ELSE IsolateChannel(blockPos, inputColor)

(***************************************************************************)
(* State.                                                                  *)
(***************************************************************************)
VARIABLES
    \* SubpixelRenderer calls
    calcIn,               \* arguments of the SubpixelRenderer calls
    calcOut,              \* result of calculateOutputDimensions, or NotRun
    calcDensity,          \* result of calculatePixelDensityForTargetHeight, or NotRun
    \* SettingsManager and GpuContext
    settings,             \* SettingsManager.settings
    settingsConnected,    \* SettingsManager.gpuContext # null
    gpuInitialized,       \* GpuContext._initialized
    uniforms,             \* the values held by GpuContext's uniform buffers
    root,                 \* GpuContext.root: a device id, or 0 (null)
    handles,              \* the other handles of GpuContext that are not null
    devicesCreated,       \* number of devices tgpu.init() has produced so far
    releases,             \* per device, how many times root.destroy() ran on it
    initsPending,         \* init() calls suspended in await tgpu.init()
    lastCall,             \* the last call made on GpuContext and its outcome
    \* one shaded fragment of a frame
    fragIn,               \* the colour sampled from the source texture
    frag,                 \* the last fragment shaded, or NotRun
    \* RenderPipeline and CanvasManager
    pipelineCreated,      \* RenderPipeline.pipeline # null
    canvasConfigured,     \* CanvasManager.canvas # null and context # null
    currentCanvas,        \* CanvasManager.canvas: a canvas id, or 0 (null)
    currentContext,       \* CanvasManager.context: the canvas it is of, or 0
    configureSucceeded,   \* configure() has returned since the last reset()
    canvasSize,           \* canvas.width, canvas.height
    surface,              \* what the canvas back buffer holds: a draw, or Blank
    \* CameraManager and the browser's media objects
    cameraStream,         \* CameraManager.cameraStream: a stream id, or 0 (null)
    liveStreams,          \* acquired streams whose tracks have not been stopped
    streamsAcquired,      \* number of getUserMedia acquisitions so far
    scheduled,            \* outstanding requestVideoFrameCallback requests
    startsRequested,      \* start() calls waiting for getUserMedia
    startsLoading,        \* streams of start() calls waiting for their video
    startedSinceStop,     \* start() was called after the last stop() call
    \* CameraProcessor
    videoFrameCallbackId, \* 0 stands for undefined
    lastFrameSize,        \* NoSize stands for null
    pendingExport,        \* the promise id of the PendingExport, or 0 (null)
    frameCount,
    promises,             \* the promises exportFrame has returned
    lastFrame,            \* the last frame this camera run drew, or NoFrame
    \* CrtSubpixelProcessor
    processorsCreated,    \* imageProcessor # null and cameraProcessor # null
    currentImageBitmap,   \* the size of the stored image, or NoSize (null)
    \* ImageProcessor
    imageExports,         \* ImageProcessor.export calls in flight
    \* the calls the last tick, image call or SettingsManager call made on
    \* GpuContext, pipeline and canvas, in order (a camera or image handler
    \* that makes none leaves it empty)
    calls

calcVars == <<calcIn, calcOut, calcDensity>>

settingsVars == <<settings, settingsConnected, gpuInitialized, uniforms>>

gpuVars == <<root, handles, devicesCreated, releases, initsPending, lastCall>>

shaderVars == <<fragIn, frag>>

canvasVars == <<pipelineCreated, canvasConfigured, currentCanvas, currentContext, configureSucceeded, canvasSize,
               surface>>

mediaVars == <<cameraStream, liveStreams, streamsAcquired, scheduled,
               startsRequested, startsLoading, startedSinceStop>>

processorVars == <<videoFrameCallbackId, lastFrameSize, pendingExport,
                   frameCount, promises, lastFrame>>

facadeVars == <<processorsCreated, currentImageBitmap>>

cameraVars == <<canvasVars, mediaVars, processorVars, facadeVars, imageExports,
               calls>>

vars == <<calcVars, settingsVars, gpuVars, shaderVars, cameraVars>>

NotRun == [run |-> FALSE]

\* DEFAULT_SETTINGS
DefaultSettings ==
    [orientation |-> "columns", pixelDensity |-> 1, interlaced |-> FALSE,
     field |-> "odd"]

(***************************************************************************)
(* SubpixelRenderer calls on bounded inputs.                               *)
(***************************************************************************)
\* Input heights and targets: the small range plus Scenario E of the spec.
CalcHeights == (1..MaxDim) \cup {964}

CalcTargets == (1..MaxTarget) \cup {480}

CalcRest ==
    /\ calcIn = [width |-> 1, height |-> 1, density |-> 1, target |-> 480]
    /\ calcOut = NotRun
    /\ calcDensity = NotRun

CalcInit ==
    /\ calcIn \in [width : 1..MaxDim, height : CalcHeights,
                   density : 1..MaxDensity, target : CalcTargets]
    /\ calcOut = NotRun
    /\ calcDensity = NotRun

CallCalculateOutputDimensions ==
    /\ calcOut = NotRun
    /\ calcOut' = [run |-> TRUE,
                   result |-> calculateOutputDimensions(
                       Dimensions(calcIn.width, calcIn.height),
                       PixelDensityFrom(calcIn.density))]
    /\ UNCHANGED <<calcIn, calcDensity>>

CallCalculatePixelDensity ==
    /\ calcDensity = NotRun
    /\ \E ideal \in IdealRoundings(calcIn.height, calcIn.target) :
         calcDensity' = [run |-> TRUE,
                         ideal |-> ideal,
                         result |-> calculatePixelDensityForTargetHeight(
                             calcIn.height, calcIn.target, ideal)]
    /\ UNCHANGED <<calcIn, calcOut>>

(***************************************************************************)
(* SettingsManager setters: the local value is stored unconditionally and  *)
(* written through when a context is connected and initialized.            *)
(***************************************************************************)
WriteThrough_ConnectedOnly == settingsConnected

\* this.gpuContext?.initialized
WriteThrough == settingsConnected /\ gpuInitialized

\* The setters as functions of st = [settings, uniforms, calls]: the stored
\* settings, the buffer values and the GpuContext calls made so far by the
\* handler that runs.
\* set orientation(value)
setOrientation(st, value) ==
    [settings |-> [st.settings EXCEPT !.orientation = value],
     uniforms |-> IF WriteThrough
                  THEN writeOrientation(st.uniforms, value = "rows")
                  ELSE st.uniforms,
     calls |-> IF WriteThrough
               THEN Append(st.calls, "writeOrientation") ELSE st.calls]

\* set pixelDensity(value), the value in halves
setPixelDensity(st, halves) ==
    LET clampedValue == Max(1, MathFloor(halves))
    IN  [settings |-> [st.settings EXCEPT !.pixelDensity = clampedValue],
         uniforms |-> IF WriteThrough
                      THEN writePixelDensity(st.uniforms, clampedValue)
                      ELSE st.uniforms,
         calls |-> IF WriteThrough
                   THEN Append(st.calls, "writePixelDensity") ELSE st.calls]

\* set interlaced(value)
setInterlaced(st, value) ==
    [settings |-> [st.settings EXCEPT !.interlaced = value],
     uniforms |-> IF WriteThrough
                  THEN writeInterlaced(st.uniforms, value)
                  ELSE st.uniforms,
     calls |-> IF WriteThrough
               THEN Append(st.calls, "writeInterlaced") ELSE st.calls]

\* set field(value)
setField(st, value) ==
    [settings |-> [st.settings EXCEPT !.field = value],
     uniforms |-> IF WriteThrough
                  THEN writeField(st.uniforms, value = "odd")
                  ELSE st.uniforms,
     calls |-> IF WriteThrough
               THEN Append(st.calls, "writeField") ELSE st.calls]

\* The stored settings and the buffer values before a handler runs.
Stored == [settings |-> settings, uniforms |-> uniforms, calls |-> <<>>]

\* A handler of SettingsManager that ends with st.
Store(st) ==
    /\ settings' = st.settings
    /\ uniforms' = st.uniforms
    /\ calls' = st.calls
    /\ UNCHANGED <<settingsConnected, gpuInitialized>>

\* A SettingsManager call leaves everything else alone.
SettingsStep ==
    UNCHANGED <<calcVars, facadeVars, gpuVars, shaderVars, canvasVars, mediaVars,
                processorVars, imageExports>>

SetOrientation(value) == Store(setOrientation(Stored, value))

SetInterlaced(value) == Store(setInterlaced(Stored, value))

SetField(value) == Store(setField(Stored, value))

\* SettingsManager.syncToGpu on an initialized context
syncToGpu(u, s) ==
    writeField(
        writeInterlaced(
            writePixelDensity(
                writeOrientation(u, s.orientation = "rows"),
                s.pixelDensity),
            s.interlaced),
        s.field = "odd")

\* The processor after CrtSubpixelProcessor.init(): the context is
\* initialized, the settings are connected and synced.
SettingsInit ==
    /\ settings = DefaultSettings
    /\ settingsConnected = TRUE
    /\ gpuInitialized = TRUE
    /\ uniforms = syncToGpu(InitialUniforms, DefaultSettings)

(***************************************************************************)
(* GpuContext: init, destroy and the accessors.                            *)
(***************************************************************************)
\* The handles init() creates besides root.
BufferHandles ==
    {"outputDimensionsBuffer", "inputDimensionsBuffer", "orientationBuffer",
     "pixelDensityBuffer", "interlacedBuffer", "fieldBuffer"}

AllHandles == BufferHandles \cup {"sampler", "presentationFormat"}

\* The getters of GpuContext: tgpuRoot and device read root, the others
\* their own handle.
Getters == AllHandles \cup {"tgpuRoot", "device"}

\* What the uniform record stands for while the buffers are null.
NoUniforms ==
    [outputDims |-> <<0, 0>>, inputDims |-> <<0, 0>>, orientation |-> 0,
     pixelDensity |-> 0, interlaced |-> 0, field |-> 0]

NoCall == [name |-> "none", initialized |-> FALSE, threw |-> FALSE]

\* The outcome of a call: whether initialized held when it was made and
\* whether it threw "GpuContext not initialized".
Called(name, threw) ==
    [name |-> name, initialized |-> gpuInitialized, threw |-> threw]

GetterThrows_Unchecked(name, r, hs) == FALSE

\* A getter throws when the handle it returns is null.
GetterThrows(name, r, hs) ==
    IF name \in {"tgpuRoot", "device"} THEN r = 0 ELSE name \notin hs

\* A context on which init() has completed once: what the processor holds
\* after CrtSubpixelProcessor.init().
GpuReady ==
    /\ root = 1
    /\ handles = AllHandles
    /\ devicesCreated = 1
    /\ releases = [dev \in 1..MaxDevices |-> 0]
    /\ initsPending = 0
    /\ lastCall = NoCall

\* new GpuContext()
GpuConstructed ==
    /\ gpuInitialized = FALSE
    /\ uniforms = NoUniforms
    /\ root = 0
    /\ handles = {}
    /\ devicesCreated = 0
    /\ releases = [dev \in 1..MaxDevices |-> 0]
    /\ initsPending = 0
    /\ lastCall = NoCall

\* init() up to its await: returns at once on an initialized context,
\* otherwise requests a device and suspends.
GpuInitBegin ==
    /\ initsPending' = IF gpuInitialized THEN initsPending ELSE initsPending + 1
    /\ ~gpuInitialized => devicesCreated + initsPending < MaxDevices
    /\ lastCall' = Called("init", FALSE)
    /\ UNCHANGED <<gpuInitialized, uniforms, root, handles, devicesCreated,
                   releases>>

\* init() after its await: the device arrived; root, the sampler, the six
\* buffers and the presentation format are assigned and _initialized is set,
\* all in one synchronous run.
GpuInitResume ==
    /\ initsPending > 0
    /\ initsPending' = initsPending - 1
    /\ devicesCreated' = devicesCreated + 1
    /\ root' = devicesCreated + 1
    /\ handles' = AllHandles
    /\ uniforms' = InitialUniforms
    /\ gpuInitialized' = TRUE
    /\ lastCall' = Called("init resumed", FALSE)
    /\ UNCHANGED releases

\* tgpu.init() rejected: init() rejects and nothing was assigned.
GpuInitRejected ==
    /\ initsPending > 0
    /\ initsPending' = initsPending - 1
    /\ lastCall' = Called("init rejected", TRUE)
    /\ UNCHANGED <<gpuInitialized, uniforms, root, handles, devicesCreated,
                   releases>>

DestroyRoot_KeepsReference(r, rel) ==
    [root |-> r,
     releases |-> IF r # 0 THEN [rel EXCEPT ![r] = @ + 1] ELSE rel]

\* this.root && (this.root.destroy(), this.root = null)
DestroyRoot(r, rel) ==
    [root |-> 0,
     releases |-> IF r # 0 THEN [rel EXCEPT ![r] = @ + 1] ELSE rel]

\* destroy()
GpuDestroy ==
    LET destroyed == DestroyRoot(root, releases)
    IN  /\ root' = destroyed.root
        /\ releases' = destroyed.releases
        /\ handles' = {}
        /\ uniforms' = NoUniforms
        /\ gpuInitialized' = FALSE
        /\ lastCall' = Called("destroy", FALSE)
        /\ UNCHANGED <<devicesCreated, initsPending>>

\* One of the getters read by a caller; flush() reads device.
GpuGet(name) ==
    /\ lastCall' = Called(name, GetterThrows(name, root, handles))
    /\ UNCHANGED <<gpuInitialized, uniforms, root, handles, devicesCreated,
                   releases, initsPending>>

\* The write accessors with the arguments a caller passes.
Writes ==
    {[name |-> "writeOutputDimensions", size |-> sz] : sz \in {<<1, 1>>, <<3, 3>>}}
    \cup {[name |-> "writeInputDimensions", size |-> sz] : sz \in {<<1, 1>>, <<2, 2>>}}
    \cup {[name |-> "writeOrientation", flag |-> b] : b \in BOOLEAN}
    \cup {[name |-> "writePixelDensity", density |-> n] : n \in {0, 2}}
    \cup {[name |-> "writeInterlaced", flag |-> b] : b \in BOOLEAN}
    \cup {[name |-> "writeField", flag |-> b] : b \in BOOLEAN}

\* The buffer getter a write accessor goes through.
BufferOf(write) ==
    CASE write.name = "writeOutputDimensions" -> "outputDimensionsBuffer"
      [] write.name = "writeInputDimensions" -> "inputDimensionsBuffer"
      [] write.name = "writeOrientation" -> "orientationBuffer"
      [] write.name = "writePixelDensity" -> "pixelDensityBuffer"
      [] write.name = "writeInterlaced" -> "interlacedBuffer"
      [] write.name = "writeField" -> "fieldBuffer"

ApplyWrite(u, write) ==
    CASE write.name = "writeOutputDimensions" ->
             writeOutputDimensions(u, Dimensions(write.size[1], write.size[2]))
      [] write.name = "writeInputDimensions" ->
             writeInputDimensions(u, Dimensions(write.size[1], write.size[2]))
      [] write.name = "writeOrientation" -> writeOrientation(u, write.flag)
      [] write.name = "writePixelDensity" -> writePixelDensity(u, write.density)
      [] write.name = "writeInterlaced" -> writeInterlaced(u, write.flag)
      [] write.name = "writeField" -> writeField(u, write.flag)

\* A write accessor called directly: the buffer getter throws on a null
\* buffer, otherwise the value is written.
GpuWrite(write) ==
    LET threw == GetterThrows(BufferOf(write), root, handles)
    IN  /\ lastCall' = Called(write.name, threw)
        /\ uniforms' = IF threw THEN uniforms ELSE ApplyWrite(uniforms, write)
        /\ UNCHANGED <<gpuInitialized, root, handles, devicesCreated,
                       releases, initsPending>>

\* A GpuContext driven by a caller, nothing else attached.
GpuRest ==
    UNCHANGED <<calcVars, settings, settingsConnected, shaderVars, cameraVars>>

GpuNext ==
    \/ GpuInitBegin /\ GpuRest
    \/ GpuInitResume /\ GpuRest
    \/ GpuInitRejected /\ GpuRest
    \/ GpuDestroy /\ GpuRest
    \/ \E name \in Getters : GpuGet(name) /\ GpuRest
    \/ \E write \in Writes : GpuWrite(write) /\ GpuRest

(***************************************************************************)
(* Shading one fragment of a frame drawn with the current uniforms.        *)
(***************************************************************************)
White == <<1, 1, 1, 1>>

\* Colours a source texel can have: opaque white, and a transparent colour
\* whose green channel is dark.
SourceColors == {White, <<1, 0, 1, 0>>}

ShaderRest ==
    /\ fragIn = White
    /\ frag = NotRun

\* The output surface of a frame of input size (w, h) at density 1.
ShaderInit ==
    /\ fragIn \in SourceColors
    /\ frag = NotRun
    /\ settings = DefaultSettings
    /\ settingsConnected = TRUE
    /\ gpuInitialized = TRUE
    /\ \E w \in 1..2, h \in 1..MaxDim :
         uniforms = writeOutputDimensions(
                        writeInputDimensions(
                            syncToGpu(InitialUniforms, DefaultSettings),
                            Dimensions(w, h)),
                        calculateOutputDimensions(Dimensions(w, h), 1))

\* The fragment stage run for output pixel (px, py) of the current frame.
ShadeFragment(px, py) ==
    /\ px < uniforms.outputDims[1]
    /\ py < uniforms.outputDims[2]
    /\ frag' = [run |-> TRUE, x |-> px, y |-> py,
                interlaced |-> settings.interlaced,
                field |-> settings.field,
                orientation |-> settings.orientation,
                sampled |-> fragIn,
                color |-> SubpixelFragment(px, py, uniforms, fragIn)]
    /\ UNCHANGED <<fragIn, settingsVars>>

\* groupedPixel along one axis, in halves of an input pixel, for output
\* pixel p: floor(pixelCoord / 3) * density + density / 2.
groupedPixel(p, density) == 2 * ((p \div 3) * density) + density

clampToEdge_Unclamped(coord, len) == coord

\* textureSampleBaseClampToEdge along one axis of length len: the coordinate
\* (in halves) is clamped to half a texel from either edge.
clampToEdge(coord, len) ==
    IF coord < 1 THEN 1 ELSE IF coord > 2 * len - 1 THEN 2 * len - 1 ELSE coord

\* The uniforms of a frame of input size (w, h) drawn at density d.
SampleInit ==
    /\ fragIn = White
    /\ frag = NotRun
    /\ settingsConnected = TRUE
    /\ gpuInitialized = TRUE
    /\ \E w \in 1..MaxDim, h \in 1..MaxDim, density \in 1..MaxDensity :
         LET out == calculateOutputDimensions(Dimensions(w, h),
                                              PixelDensityFrom(density))
             set == [DefaultSettings EXCEPT !.pixelDensity = density]
         IN  /\ ~out.threw
             /\ settings = set
             /\ uniforms = writeOutputDimensions(
                                writeInputDimensions(
                                    syncToGpu(InitialUniforms, set),
                                    Dimensions(w, h)),
                                out)

\* The fragment stage up to the texture sample, for output pixel (px, py):
\* the logical pixel, the coordinate handed to the sampler and the
\* coordinate the sampler reads after clamping.
SampleFragment(px, py) ==
    /\ px < uniforms.outputDims[1]
    /\ py < uniforms.outputDims[2]
    /\ LET gx == groupedPixel(px, uniforms.pixelDensity)
           gy == groupedPixel(py, uniforms.pixelDensity)
       IN  frag' = [run |-> TRUE, x |-> px, y |-> py,
                    logical |-> <<px \div 3, py \div 3>>,
                    grouped |-> <<gx, gy>>,
                    read |-> <<clampToEdge(gx, uniforms.inputDims[1]),
                               clampToEdge(gy, uniforms.inputDims[2])>>]
    /\ UNCHANGED <<fragIn, settingsVars>>

\* Every output pixel of the frame sampled, in any order.
SampleNext ==
    \E px \in 0..(3 * MaxDim - 1), py \in 0..(3 * MaxDim - 1) :
        SampleFragment(px, py) /\ UNCHANGED <<calcVars, gpuVars, cameraVars>>

ShaderNext ==
    \/ \E v \in {"columns", "rows"} : SetOrientation(v) /\ SettingsStep
    \/ \E v \in BOOLEAN : SetInterlaced(v) /\ SettingsStep
    \/ \E v \in {"odd", "even"} : SetField(v) /\ SettingsStep
    \/ \E px \in 0..(3 * 2 - 1), py \in 0..(3 * MaxDim - 1) :
         ShadeFragment(px, py) /\ UNCHANGED <<calcVars, gpuVars, cameraVars>>

(***************************************************************************)
(* Canvas surface, promises and the browser's frame callbacks.             *)
(***************************************************************************)
\* What the canvas back buffer holds: nothing (cleared after presentation),
\* the n-th frame of the current camera run, or the draw of image call k.
Blank == <<"blank", 0>>

CameraDraw(n) == <<"camera", n>>

ImageDraw(k) == <<"image", k>>

\* The canvas element the caller passes to start() and to render().
DisplayCanvas == 1

\* lastFrameSize = null
NoSize == <<0, 0>>

\* No frame drawn since the counter was last reset.
NoFrame == [drawn |-> FALSE]

\* Frame and image sizes offered by the environment.  At density
\* MaxDensity the first one has an output dimension of 0.
FrameSizes == {<<1, 1>>, <<2, 2>>}

\* Densities the caller sets while the camera runs.
CameraDensities == {1, MaxDensity}

\* A promise returned by exportFrame: not yet created, pending, settled by
\* the blob callback of a capture in progress, or resolved.
UnusedPromise ==
    [state |-> "unused", value |-> "none", capture |-> Blank, by |-> "none"]

PendingPromise ==
    [state |-> "pending", value |-> "none", capture |-> Blank, by |-> "none"]

ResolvedNull(who) ==
    [state |-> "resolved", value |-> "null", capture |-> Blank, by |-> who]

\* The index of the promise the next exportFrame call returns.
NextPromise == Cardinality({p \in 1..MaxExports : promises[p].state # "unused"}) + 1

\* An export call not in flight.
IdleExport ==
    [pc |-> "idle", result |-> "none", drawn |-> Blank, capture |-> Blank,
     resumedOn |-> Blank]

\* HTMLVideoElement.requestVideoFrameCallback through
\* CameraManager.requestVideoFrameCallback: registers a one-shot callback on
\* the current video and returns its handle.  Handles are only compared with
\* each other, so the model reuses the smallest one that names no
\* outstanding callback of that video and differs from the stored id.
requestVideoFrameCallback(sched, video, stored) ==
    LET id == CHOOSE i \in 1..(Cardinality(sched) + 2) :
                  /\ i # stored
                  /\ [id |-> i, video |-> video] \notin sched
    IN  [id |-> id, scheduled |-> sched \cup {[id |-> id, video |-> video]}]

\* CameraManager.cancelVideoFrameCallback(id)
cancelVideoFrameCallback(sched, stream, id) ==
    IF stream # 0 THEN sched \ {[id |-> id, video |-> stream]} ELSE sched

\* CameraManager.stop(): stops the tracks of the current stream and clears
\* the video's source; callbacks still registered on that video can no
\* longer fire and are dropped from the model.
\* stopped: the streams whose tracks this call halted.
CameraManagerStop_KeepsStream(stream, live, sched) ==
    IF stream = 0
    THEN [cameraStream |-> 0, liveStreams |-> live, scheduled |-> sched,
          stopped |-> {}]
    ELSE [cameraStream |-> stream, liveStreams |-> live \ {stream},
          scheduled |-> {cb \in sched : cb.video # stream},
          stopped |-> {stream}]

CameraManagerStop(stream, live, sched) ==
    IF stream = 0
    THEN [cameraStream |-> 0, liveStreams |-> live, scheduled |-> sched,
          stopped |-> {}]
    ELSE [cameraStream |-> 0, liveStreams |-> live \ {stream},
          scheduled |-> {cb \in sched : cb.video # stream},
          stopped |-> {stream}]

(***************************************************************************)
(* CameraProcessor.                                                        *)
(***************************************************************************)
\* stop(): this.pendingExport && this.pendingExport.resolve(null)
ResolvePendingWithNull(slot, proms) ==
    IF slot # 0
    THEN [proms EXCEPT ![slot] = ResolvedNull("stop")]
    ELSE proms

\* The state CameraProcessor.stop() leaves (also the first statement of
\* start()).
stop ==
    LET cancelled == IF videoFrameCallbackId # 0
                     THEN cancelVideoFrameCallback(scheduled, cameraStream,
                                                   videoFrameCallbackId)
                     ELSE scheduled
        stopped == CameraManagerStop(cameraStream, liveStreams, cancelled)
    IN  /\ videoFrameCallbackId' = 0
        /\ cameraStream' = stopped.cameraStream
        /\ liveStreams' = stopped.liveStreams
        /\ scheduled' = stopped.scheduled
        /\ lastFrameSize' = NoSize
        /\ frameCount' = 0
        /\ lastFrame' = NoFrame
        /\ promises' = ResolvePendingWithNull(pendingExport, promises)
        /\ pendingExport' = 0

\* CameraProcessor.stop()
Stop ==
    /\ stop
    /\ startedSinceStop' = FALSE
    /\ calls' = <<>>
    /\ UNCHANGED <<calcVars, facadeVars, gpuVars, settingsVars, shaderVars, canvasVars,
                   streamsAcquired, startsRequested, startsLoading,
                   imageExports>>

startRejects_GpuOnly == ~gpuInitialized

\* start(): !this.gpuContext.initialized || !this.pipeline.isCreated
startRejects == ~gpuInitialized \/ ~pipelineCreated

\* CameraProcessor.start(canvas, options) up to the suspension in
\* CameraManager.start: stop(), canvasManager.configure, CameraManager.stop
\* (nothing left to stop), getUserMedia requested.  Calls in flight are
\* interchangeable, so the model counts them.
StartBegin ==
    /\ streamsAcquired + startsRequested < MaxStreams
    /\ ~startRejects
    /\ stop
    /\ startedSinceStop' = TRUE
    /\ canvasConfigured' = TRUE
    /\ currentCanvas' = DisplayCanvas
    /\ currentContext' = DisplayCanvas
    /\ configureSucceeded' = TRUE
    /\ startsRequested' = startsRequested + 1
    /\ calls' = <<>>
    /\ UNCHANGED <<calcVars, facadeVars, gpuVars, settingsVars, shaderVars, pipelineCreated,
                   canvasSize, surface, streamsAcquired, startsLoading,
                   imageExports>>

\* getUserMedia resolves for one of the calls: the stream is live, the
\* video element waits for its metadata and for play().
StreamAcquired ==
    /\ startsRequested > 0
    /\ startsRequested' = startsRequested - 1
    /\ streamsAcquired' = streamsAcquired + 1
    /\ liveStreams' = liveStreams \cup {streamsAcquired + 1}
    /\ startsLoading' = startsLoading \cup {streamsAcquired + 1}
    /\ calls' = <<>>
    /\ UNCHANGED <<calcVars, facadeVars, gpuVars, settingsVars, shaderVars, canvasVars, cameraStream,
                   scheduled, startedSinceStop, processorVars, imageExports>>

\* The video of a call is ready: CameraManager.start stores the
\* CameraStream and returns, CameraProcessor.start continues with
\* scheduleNextFrame().  Only promise continuations run in between.
StartResume(stream) ==
    /\ stream \in startsLoading
    /\ startsLoading' = startsLoading \ {stream}
    /\ LET req == requestVideoFrameCallback(scheduled, stream, videoFrameCallbackId)
       IN  /\ cameraStream' = stream
           /\ scheduled' = req.scheduled
           /\ videoFrameCallbackId' = req.id
    /\ calls' = <<>>
    /\ UNCHANGED <<calcVars, facadeVars, gpuVars, settingsVars, shaderVars, canvasVars, liveStreams,
                   streamsAcquired, startsRequested, startedSinceStop,
                   lastFrameSize, pendingExport, frameCount, promises,
                   lastFrame, imageExports>>

exportFrameReady_CanvasOnly == canvasConfigured

\* exportFrame: the two guards that return null
exportFrameReady == canvasConfigured /\ cameraStream # 0

\* CameraProcessor.exportFrame(options)
ExportFrame ==
    /\ NextPromise <= MaxExports
    /\ IF exportFrameReady
       THEN /\ promises' = [promises EXCEPT ![NextPromise] = PendingPromise]
            /\ pendingExport' = NextPromise
       ELSE /\ promises' = [promises EXCEPT ![NextPromise] = ResolvedNull("exportFrame")]
            /\ pendingExport' = pendingExport
    /\ calls' = <<>>
    /\ UNCHANGED <<calcVars, facadeVars, gpuVars, settingsVars, shaderVars, canvasVars, mediaVars,
                   videoFrameCallbackId, lastFrameSize, frameCount, lastFrame,
                   imageExports>>

setSize_Rounded(quartersW, quartersH) ==
    LET canvasWidth == (3 * quartersW + 2) \div 4
        canvasHeight == (3 * quartersH + 2) \div 4
    IN  [canvasSize |-> <<canvasWidth, canvasHeight>>,
         returned |-> Dimensions(canvasWidth, canvasHeight)]

\* CanvasManager.setSize(inputDimensions) on a configured canvas, for an
\* input given in quarters: canvas.width = Math.floor(width * 3), likewise
\* the height, then new Dimensions(canvasWidth, canvasHeight), which throws
\* when one of them is 0.
setSize(quartersW, quartersH) ==
    LET canvasWidth == (3 * quartersW) \div 4
        canvasHeight == (3 * quartersH) \div 4
    IN  [canvasSize |-> <<canvasWidth, canvasHeight>>,
         returned |-> Dimensions(canvasWidth, canvasHeight)]

\* updateCanvasSize(width, height) on a configured canvas: setSize, then
\* calculateOutputDimensions (which throws on a zero output dimension),
\* then writeOutputDimensions and setAspectRatio.
updateCanvasSize(u, size, density) ==
    LET e == Dimensions(size[1], size[2])
        a == calculateOutputDimensions(e, PixelDensityFrom(density))
    IN  [threw |-> a.threw,
         canvasSize |-> setSize(4 * size[1], 4 * size[2]).canvasSize,
         uniforms |-> IF a.threw THEN u ELSE writeOutputDimensions(u, a),
         calls |-> IF a.threw THEN <<"setSize">>
                   ELSE <<"setSize", "writeOutputDimensions", "setAspectRatio">>]

FieldForFrame_Inverted(count) == IF count % 2 = 0 THEN "even" ELSE "odd"

\* processVideoFrame: const r = this.frameCount % 2 === 0; field = r ? "odd" : "even"
FieldForFrame(count) == IF count % 2 = 0 THEN "odd" ELSE "even"

\* processVideoFrame, after the draw: if (this.pendingExport) the slot is
\* cleared and canvas.toBlob is started on the surface as it is now; the
\* blob callback resolves the promise.
ConsumePendingExport(slot, proms, drawn) ==
    IF slot # 0
    THEN [slot |-> 0,
          promises |-> [proms EXCEPT ![slot] =
                           [state |-> "capturing", value |-> "none",
                            capture |-> drawn, by |-> "tick"]],
          calls |-> <<"toBlobSync">>]
    ELSE [slot |-> 0, promises |-> proms, calls |-> <<>>]

\* processVideoFrame(now, metadata): the callback cb fires with a frame of
\* size fs; ready is video.readyState >= 2 as read by the handler.
ProcessVideoFrame(cb, fs, ready) ==
    /\ cb \in scheduled
    /\ cb.video \in liveStreams
    /\ frameCount < MaxFrames
    /\ LET fired == scheduled \ {cb}
           req == requestVideoFrameCallback(fired, cameraStream, videoFrameCallbackId)
           n == Dimensions(fs[1], fs[2])
           u1 == writeInputDimensions(uniforms, n)
           sizeChanged == lastFrameSize # fs
           upd == updateCanvasSize(u1, fs, settings.pixelDensity)
           u2 == IF sizeChanged THEN upd.uniforms ELSE u1
           newField == FieldForFrame(frameCount)
           u3 == IF settings.interlaced /\ WriteThrough
                 THEN writeField(u2, newField = "odd") ELSE u2
           drawn == CameraDraw(frameCount)
           consumed == ConsumePendingExport(pendingExport, promises, drawn)
       IN  IF \/ ~gpuInitialized \/ ~pipelineCreated
              \/ ~canvasConfigured \/ cameraStream = 0
           THEN \* return without rescheduling
                /\ scheduled' = fired
                /\ calls' = <<>>
                /\ UNCHANGED <<settings, uniforms, canvasSize, surface,
                               processorVars>>
           ELSE IF ~ready
           THEN \* scheduleNextFrame(); return
                /\ scheduled' = req.scheduled
                /\ videoFrameCallbackId' = req.id
                /\ calls' = <<>>
                /\ UNCHANGED <<settings, uniforms, canvasSize, surface,
                               lastFrameSize, pendingExport, frameCount,
                               promises, lastFrame>>
           ELSE IF sizeChanged /\ upd.threw
           THEN \* updateCanvasSize throws: the handler is abandoned
                /\ scheduled' = fired
                /\ uniforms' = u1
                /\ lastFrameSize' = fs
                /\ canvasSize' = upd.canvasSize
                /\ calls' = <<>>
                /\ UNCHANGED <<settings, surface, videoFrameCallbackId,
                               pendingExport, frameCount, promises, lastFrame>>
           ELSE /\ lastFrameSize' = fs
                /\ canvasSize' = IF sizeChanged THEN upd.canvasSize ELSE canvasSize
                /\ settings' = IF settings.interlaced
                               THEN [settings EXCEPT !.field = newField]
                               ELSE settings
                /\ uniforms' = u3
                /\ surface' = drawn
                /\ lastFrame' = [drawn |-> TRUE,
                                 interlaced |-> settings.interlaced,
                                 field |-> u3.field]
                /\ frameCount' = frameCount + 1
                /\ pendingExport' = consumed.slot
                /\ promises' = consumed.promises
                /\ scheduled' = req.scheduled
                /\ videoFrameCallbackId' = req.id
                /\ calls' = <<"writeInputDimensions">>
                            \o (IF sizeChanged THEN upd.calls ELSE <<>>)
                            \o (IF settings.interlaced THEN <<"writeField">> ELSE <<>>)
                            \o <<"draw">> \o consumed.calls
                            \o <<"requestVideoFrameCallback">>
    /\ UNCHANGED <<calcVars, facadeVars, gpuVars, shaderVars, settingsConnected, gpuInitialized,
                   pipelineCreated, canvasConfigured, currentCanvas, currentContext, configureSucceeded,
                   cameraStream, liveStreams, streamsAcquired, startsRequested,
                   startsLoading, startedSinceStop, imageExports>>

\* The blob callback of a capture started by a tick: the promise resolves
\* with the blob of the captured surface.
BlobReady(p) ==
    /\ promises[p].state = "capturing"
    /\ promises' = [promises EXCEPT ![p].state = "resolved", ![p].value = "blob"]
    /\ calls' = <<>>
    /\ UNCHANGED <<calcVars, facadeVars, gpuVars, settingsVars, shaderVars, canvasVars, mediaVars,
                   videoFrameCallbackId, lastFrameSize, pendingExport,
                   frameCount, lastFrame, imageExports>>

SetPixelDensity(halves) == Store(setPixelDensity(Stored, halves))

\* The browser presents the canvas after a task that drew to it; the
\* current texture is gone afterwards.
Present ==
    /\ surface # Blank
    /\ surface' = Blank
    /\ calls' = <<>>
    /\ UNCHANGED <<calcVars, facadeVars, gpuVars, settingsVars, shaderVars, pipelineCreated,
                   canvasConfigured, currentCanvas, currentContext, configureSucceeded, canvasSize, mediaVars,
                   processorVars, imageExports>>

(***************************************************************************)
(* ImageProcessor.                                                         *)
(***************************************************************************)
ExportSteps_CaptureAfterFlush == <<"draw", "flush", "toBlobSync">>

\* The statements of export()'s try block, in program order: pipeline.render,
\* canvasManager.toBlobSync, await gpuContext.flush().
ExportSteps == <<"draw", "toBlobSync", "flush">>

\* Running statements on the canvas: a draw replaces the surface, toBlobSync
\* starts a capture of the surface as it is at that moment.
RECURSIVE RunSteps(_, _, _)
RunSteps(steps, st, k) ==
    IF steps = <<>> THEN st
    ELSE LET s == Head(steps)
             next == IF s = "draw" THEN [st EXCEPT !.surface = ImageDraw(k)]
                     ELSE IF s = "toBlobSync" THEN [st EXCEPT !.capture = st.surface]
                     ELSE st
         IN  RunSteps(Tail(steps), next, k)

\* The position of the await in the try block.
FlushAt == CHOOSE i \in 1..Len(ExportSteps) : ExportSteps[i] = "flush"

exportReady_CanvasUnchecked == gpuInitialized /\ pipelineCreated

\* export(): the guard that returns null
exportReady == gpuInitialized /\ pipelineCreated /\ canvasConfigured

\* ImageProcessor.export(input, options) up to its suspension at
\* await flush(); size is the size of the input bitmap.
ImageExportBegin(k, size) ==
    /\ imageExports[k].pc \in {"idle", "returned"}
    /\ IF ~exportReady
       THEN /\ imageExports' = [imageExports EXCEPT
                                  ![k] = [IdleExport EXCEPT !.pc = "returned",
                                                            !.result = "null"]]
            /\ calls' = <<>>
            /\ UNCHANGED <<uniforms, surface>>
       ELSE LET n == Dimensions(size[1], size[2])
                u1 == writeInputDimensions(uniforms, n)
                a == calculateOutputDimensions(
                         n, PixelDensityFrom(settings.pixelDensity))
                before == SubSeq(ExportSteps, 1, FlushAt)
                st == RunSteps(before, [surface |-> surface, capture |-> Blank], k)
            IN  IF a.threw
                THEN /\ uniforms' = u1
                     /\ imageExports' = [imageExports EXCEPT
                                           ![k] = [IdleExport EXCEPT
                                                     !.pc = "returned",
                                                     !.result = "rejected"]]
                     /\ calls' = <<"writeInputDimensions">>
                     /\ UNCHANGED surface
                ELSE /\ uniforms' = writeOutputDimensions(u1, a)
                     /\ surface' = st.surface
                     /\ imageExports' = [imageExports EXCEPT
                                           ![k] = [pc |-> "flush",
                                                   result |-> "none",
                                                   drawn |-> ImageDraw(k),
                                                   capture |-> st.capture,
                                                   resumedOn |-> Blank]]
                     /\ calls' = <<"writeInputDimensions", "writeOutputDimensions">>
                                 \o before
    /\ UNCHANGED <<calcVars, facadeVars, gpuVars, shaderVars, settings, settingsConnected,
                   gpuInitialized, pipelineCreated, canvasConfigured,
                   currentCanvas, currentContext, configureSucceeded, canvasSize, mediaVars, processorVars>>

\* export() resumes when the submitted GPU work is done and returns the
\* promise of the capture it holds.
ImageExportResume(k) ==
    /\ imageExports[k].pc = "flush"
    /\ LET after == SubSeq(ExportSteps, FlushAt + 1, Len(ExportSteps))
           st == RunSteps(after, [surface |-> surface,
                                  capture |-> imageExports[k].capture], k)
       IN  IF GetterThrows("device", root, handles)
           THEN /\ imageExports' = [imageExports EXCEPT
                                      ![k].pc = "returned",
                                      ![k].result = "rejected"]
                /\ calls' = <<>>
                /\ UNCHANGED surface
           ELSE /\ surface' = st.surface
                /\ imageExports' = [imageExports EXCEPT
                                      ![k].pc = "returned",
                                      ![k].result = "blob",
                                      ![k].capture = st.capture,
                                      ![k].resumedOn = surface]
                /\ calls' = after
    /\ UNCHANGED <<calcVars, facadeVars, gpuVars, settingsVars, shaderVars, pipelineCreated,
                   canvasConfigured, currentCanvas, currentContext, configureSucceeded, canvasSize, mediaVars,
                   processorVars>>

renderRejects_GpuOnly == ~gpuInitialized

\* render(): !this.gpuContext.initialized || !this.pipeline.isCreated
renderRejects == ~gpuInitialized \/ ~pipelineCreated

RenderSteps_AspectBeforeFlush ==
    <<"configure", "setSize", "writeInputDimensions", "writeOutputDimensions",
      "draw", "setAspectRatio", "flush">>

\* render(): the calls it makes on the canvas manager, the GpuContext and
\* the pipeline, in program order.
RenderSteps ==
    <<"configure", "setSize", "writeInputDimensions", "writeOutputDimensions",
      "draw", "flush", "setAspectRatio">>

\* ImageProcessor.render(canvas, input) past its guard: configures the
\* canvas, sizes it, writes the dimensions and draws; what follows
\* await flush() only sets the canvas style.
render(size, written, stored) ==
    /\ canvasConfigured' = TRUE
    /\ currentCanvas' = DisplayCanvas
    /\ currentContext' = DisplayCanvas
    /\ configureSucceeded' = TRUE
    /\ canvasSize' = <<3 * size[1], 3 * size[2]>>
    /\ LET n == Dimensions(size[1], size[2])
           u1 == writeInputDimensions(written, n)
           a == calculateOutputDimensions(
                    n, PixelDensityFrom(stored.pixelDensity))
       IN  IF a.threw
           THEN /\ uniforms' = u1
                /\ calls' = <<"configure", "setSize", "writeInputDimensions">>
                /\ UNCHANGED surface
           ELSE /\ uniforms' = writeOutputDimensions(u1, a)
                /\ surface' = ImageDraw(0)
                /\ calls' = RenderSteps

\* ImageProcessor.render called on its own.
RenderImage(size) ==
    /\ ~renderRejects
    /\ render(size, uniforms, settings)
    /\ UNCHANGED <<calcVars, facadeVars, gpuVars, shaderVars, settings, settingsConnected,
                   gpuInitialized, pipelineCreated, mediaVars, processorVars,
                   imageExports>>

(***************************************************************************)
(* CrtSubpixelProcessor: the setters.                                      *)
(***************************************************************************)
\* isCameraRunning(): this.cameraProcessor?.isRunning ?? false
isCameraRunning == processorsCreated /\ cameraStream # 0

reRenders_CameraUnchecked ==
    currentImageBitmap # NoSize /\ currentCanvas # 0 /\ processorsCreated

\* The test a setter makes before it renders the stored image again.
reRenders ==
    /\ ~isCameraRunning
    /\ currentImageBitmap # NoSize
    /\ currentCanvas # 0
    /\ processorsCreated

\* What a facade call leaves alone in the SubpixelRenderer and shader parts.
FacadeRest == UNCHANGED <<calcVars, shaderVars>>

\* A facade setter after its SettingsManager setter returned set: the stored
\* image is rendered again when no camera runs and a canvas is held; the
\* render is not awaited.  changed is what onPixelDensityChanged() did.
FacadeSetter(set, changed) ==
    /\ settings' = set.settings
    /\ IF reRenders /\ ~renderRejects
       THEN render(currentImageBitmap, changed.uniforms, set.settings)
       ELSE /\ uniforms' = changed.uniforms
            /\ canvasSize' = changed.canvasSize
            /\ calls' = <<>>
            /\ UNCHANGED <<canvasConfigured, currentCanvas, currentContext,
                           configureSucceeded, surface>>
    /\ UNCHANGED <<gpuVars, settingsConnected, gpuInitialized,
                   pipelineCreated, mediaVars, processorVars, facadeVars,
                   imageExports>>
    /\ FacadeRest

\* What a setter other than setPixelDensity leaves of the canvas size.
Unresized(set) == [uniforms |-> set.uniforms, canvasSize |-> canvasSize]

\* setOrientation(mode)
FacadeSetOrientation(value) ==
    LET set == setOrientation(Stored, value)
    IN  FacadeSetter(set, Unresized(set))

\* setInterlaced(enabled)
FacadeSetInterlaced(value) ==
    LET set == setInterlaced(Stored, value)
    IN  FacadeSetter(set, Unresized(set))

\* setField(field)
FacadeSetField(value) ==
    LET set == setField(Stored, value)
    IN  FacadeSetter(set, Unresized(set))

\* setPixelDensity(density) with or without a stored image: the
\* SettingsManager setter, cameraProcessor?.onPixelDensityChanged(), then the
\* render of the stored image.
FacadeSetPixelDensity(halves) ==
    LET set == setPixelDensity(Stored, halves)
        upd == updateCanvasSize(set.uniforms, lastFrameSize,
                                set.settings.pixelDensity)
        running == isCameraRunning /\ lastFrameSize # NoSize
    IN  FacadeSetter(set, IF running
                          THEN [uniforms |-> upd.uniforms,
                                canvasSize |-> upd.canvasSize]
                          ELSE Unresized(set))

\* No canvas, no camera, no export.
CameraIdle ==
    /\ canvasConfigured = FALSE
    /\ currentCanvas = 0
    /\ currentContext = 0
    /\ configureSucceeded = FALSE
    /\ currentImageBitmap = NoSize
    /\ startedSinceStop = FALSE
    /\ canvasSize = <<0, 0>>
    /\ surface = Blank
    /\ cameraStream = 0
    /\ liveStreams = {}
    /\ streamsAcquired = 0
    /\ scheduled = {}
    /\ startsRequested = 0
    /\ startsLoading = {}
    /\ videoFrameCallbackId = 0
    /\ lastFrameSize = NoSize
    /\ pendingExport = 0
    /\ frameCount = 0
    /\ promises = [p \in 1..MaxExports |-> UnusedPromise]
    /\ lastFrame = NoFrame
    /\ imageExports = [k \in 1..MaxImageExports |-> IdleExport]
    /\ calls = <<>>

\* The processor after CrtSubpixelProcessor.init(): pipeline created, no
\* canvas, no camera.
CameraInit ==
    /\ pipelineCreated = TRUE
    /\ processorsCreated = TRUE
    /\ CameraIdle

\* The managers as constructed, before any init().
CameraConstructed ==
    /\ pipelineCreated = FALSE
    /\ processorsCreated = FALSE
    /\ CameraIdle

(***************************************************************************)
(* CanvasManager called directly.                                          *)
(***************************************************************************)
\* What a call that touches neither the GpuContext nor the settings leaves
\* alone.
LifecycleRest ==
    UNCHANGED <<calcVars, settingsVars, root, handles, devicesCreated, releases,
                initsPending, shaderVars, facadeVars, imageExports>>

\* Input sizes a caller passes to setSize, in quarters: 0.25 x 1, 0.5 x 0.5,
\* 1 x 1, 1.25 x 2.
QuarterSizes == {<<1, 4>>, <<2, 2>>, <<4, 4>>, <<5, 8>>}

\* setSize(inputDimensions) called on the CanvasManager.
SetSize(size) ==
    LET set == setSize(size[1], size[2])
    IN  /\ IF currentCanvas # 0
           THEN /\ canvasSize' = set.canvasSize
                /\ lastCall' = Called("setSize", set.returned.threw)
           ELSE /\ canvasSize' = canvasSize
                /\ lastCall' = Called("setSize: Canvas not configured", TRUE)
        /\ calls' = <<>>
        /\ UNCHANGED <<pipelineCreated, canvasConfigured, currentCanvas, currentContext, configureSucceeded, surface,
                       mediaVars, processorVars>>
        /\ LifecycleRest

\* CanvasManager.configure(canvas, gpuContext) on a manager holding
\* current: canvas.getContext("webgpu") giving null throws before anything
\* is assigned; otherwise canvas and context are assigned and
\* context.configure is called with gpuContext.device, a getter that
\* throws on a context without a root.
configure(canvas, hasContext, deviceThrows, current) ==
    IF ~hasContext
    THEN [canvas |-> current.canvas, context |-> current.context,
          error |-> "Failed to get WebGPU context from canvas"]
    ELSE [canvas |-> canvas, context |-> canvas,
          error |-> IF deviceThrows THEN "GpuContext not initialized"
                    ELSE "none"]

\* get isConfigured
isConfigured(canvas, context) == canvas # 0 /\ context # 0

\* The canvas elements a caller passes to configure.
Canvases == 1..MaxCanvases

\* configure(canvas, gpuContext) called on the CanvasManager; a canvas not
\* sized through the manager yet counts as 0 x 0.
CanvasConfigure(canvas, hasContext) ==
    LET done == configure(canvas, hasContext,
                          GetterThrows("device", root, handles),
                          [canvas |-> currentCanvas, context |-> currentContext])
    IN  /\ currentCanvas' = done.canvas
        /\ currentContext' = done.context
        /\ canvasConfigured' = isConfigured(done.canvas, done.context)
        /\ configureSucceeded' = (configureSucceeded \/ done.error = "none")
        /\ canvasSize' = IF done.canvas = currentCanvas THEN canvasSize
                         ELSE <<0, 0>>
        /\ lastCall' = IF done.error = "none" THEN Called("configure", FALSE)
                       ELSE Called(done.error, TRUE)
        /\ calls' = <<>>
        /\ UNCHANGED <<pipelineCreated, surface, mediaVars, processorVars>>
        /\ LifecycleRest

\* setAspectRatio(inputDimensions): sets canvas.style.aspectRatio.
SetAspectRatio ==
    /\ lastCall' = IF currentCanvas # 0 THEN Called("setAspectRatio", FALSE)
                   ELSE Called("setAspectRatio: Canvas not configured", TRUE)
    /\ calls' = <<>>
    /\ UNCHANGED <<canvasVars, mediaVars, processorVars>>
    /\ LifecycleRest

\* getCurrentTextureView()
GetCurrentTextureView ==
    /\ lastCall' = IF currentContext # 0
                   THEN Called("getCurrentTextureView", FALSE)
                   ELSE Called("getCurrentTextureView: Canvas not configured",
                               TRUE)
    /\ calls' = <<>>
    /\ UNCHANGED <<canvasVars, mediaVars, processorVars>>
    /\ LifecycleRest

\* CanvasManager.reset()
CanvasReset ==
    /\ canvasConfigured' = FALSE
    /\ currentCanvas' = 0
    /\ currentContext' = 0
    /\ configureSucceeded' = FALSE
    /\ lastCall' = Called("reset", FALSE)
    /\ calls' = <<>>
    /\ UNCHANGED <<pipelineCreated, canvasSize, surface, mediaVars,
                   processorVars>>
    /\ LifecycleRest

\* A CanvasManager driven by a caller, with a GpuContext that is
\* initialized or not.
CanvasNext ==
    \/ \E canvas \in Canvases, hasContext \in BOOLEAN :
         CanvasConfigure(canvas, hasContext)
    \/ CanvasReset
    \/ \E size \in QuarterSizes : SetSize(size)
    \/ SetAspectRatio
    \/ GetCurrentTextureView

\* The camera loop with the pixel density changed by the caller and the
\* canvas resized behind the processor's back.
CanvasSizeNext ==
    \/ StartBegin
    \/ StreamAcquired
    \/ \E stream \in startsLoading : StartResume(stream)
    \/ \E cb \in scheduled, fs \in FrameSizes, ready \in BOOLEAN :
         ProcessVideoFrame(cb, fs, ready)
    \/ \E v \in CameraDensities : FacadeSetPixelDensity(2 * v)
    \/ \E size \in QuarterSizes : SetSize(size)

(***************************************************************************)
(* start() calls that fail, and the components of a running camera torn    *)
(* down under it.                                                          *)
(***************************************************************************)
\* start() on a processor that is not initialized: rejects with "Processor
\* not initialized" before its first statement.
StartRejected ==
    /\ startRejects
    /\ lastCall' = Called("start: Processor not initialized", TRUE)
    /\ calls' = <<>>
    /\ UNCHANGED <<canvasVars, mediaVars, processorVars>>
    /\ LifecycleRest

\* start() with a canvas that has no GPU context to give: stop() has run,
\* canvasManager.configure throws and the camera is never requested.
StartCanvasFailed ==
    /\ ~startRejects
    /\ stop
    /\ startedSinceStop' = TRUE
    /\ lastCall' = Called("start: no WebGPU context", TRUE)
    /\ calls' = <<>>
    /\ UNCHANGED <<canvasVars, streamsAcquired, startsRequested, startsLoading>>
    /\ LifecycleRest

\* getUserMedia rejects for one of the calls (permission denied, no
\* device): CameraManager.start and with it start() reject.
StartFailed ==
    /\ startsRequested > 0
    /\ startsRequested' = startsRequested - 1
    /\ lastCall' = Called("start: camera failed", TRUE)
    /\ calls' = <<>>
    /\ UNCHANGED <<canvasVars, cameraStream, liveStreams, streamsAcquired,
                   scheduled, startsLoading, startedSinceStop, processorVars>>
    /\ LifecycleRest

\* The video of a call fails to load or to play: the promise awaited in
\* CameraManager.start rejects, the stream acquired for it is not stored
\* and its tracks are left running.
VideoFailed(stream) ==
    /\ stream \in startsLoading
    /\ startsLoading' = startsLoading \ {stream}
    /\ lastCall' = Called("start: camera failed", TRUE)
    /\ calls' = <<>>
    /\ UNCHANGED <<canvasVars, cameraStream, liveStreams, streamsAcquired,
                   scheduled, startsRequested, startedSinceStop, processorVars>>
    /\ LifecycleRest

\* RenderPipeline.create(gpuContext): reads the sampler, the six buffers,
\* tgpuRoot and presentationFormat, each of which throws on a context that
\* does not hold it, before this.pipeline is assigned.
createThrows ==
    \E name \in AllHandles \cup {"tgpuRoot"} : GetterThrows(name, root, handles)

PipelineCreate ==
    /\ pipelineCreated' = (pipelineCreated \/ ~createThrows)
    /\ lastCall' = Called("create", createThrows)
    /\ calls' = <<>>
    /\ UNCHANGED <<canvasConfigured, currentCanvas, currentContext, configureSucceeded, canvasSize, surface,
                   mediaVars, processorVars>>
    /\ LifecycleRest

\* RenderPipeline.destroy()
PipelineDestroy ==
    /\ pipelineCreated' = FALSE
    /\ lastCall' = Called("destroy pipeline", FALSE)
    /\ calls' = <<>>
    /\ UNCHANGED <<canvasConfigured, currentCanvas, currentContext, configureSucceeded, canvasSize, surface,
                   mediaVars, processorVars>>
    /\ LifecycleRest

\* ImageProcessor.render on a processor that is not initialized: rejects
\* with "Processor not initialized" before its first statement.
RenderImageRejected ==
    /\ renderRejects
    /\ lastCall' = Called("render: Processor not initialized", TRUE)
    /\ calls' = <<>>
    /\ UNCHANGED <<canvasVars, mediaVars, processorVars>>
    /\ LifecycleRest

renderError_PipelineUnchecked(created, rootMissing) ==
    IF rootMissing THEN "GpuContext not initialized" ELSE "none"

\* RenderPipeline.render(source, textureView): throws "Pipeline not
\* created" without a pipeline; otherwise createBindGroup and device read
\* the root of the GpuContext before the draw.
renderError(created, rootMissing) ==
    IF ~created THEN "Pipeline not created"
    ELSE IF rootMissing THEN "GpuContext not initialized"
    ELSE "none"

\* render called on the RenderPipeline with a frame and a view of the
\* canvas.
PipelineRender ==
    LET error == renderError(pipelineCreated,
                             GetterThrows("tgpuRoot", root, handles))
    IN  /\ lastCall' = IF error = "none" THEN Called("render", FALSE)
                       ELSE Called(error, TRUE)
        /\ surface' = IF error = "none" THEN ImageDraw(0) ELSE surface
        /\ calls' = IF error = "none" THEN <<"draw">> ELSE <<>>
        /\ UNCHANGED <<pipelineCreated, canvasConfigured, currentCanvas,
                       currentContext, configureSucceeded, canvasSize,
                       mediaVars, processorVars>>
        /\ LifecycleRest

\* A RenderPipeline driven by a caller over a GpuContext that is
\* initialized and destroyed.
PipelineNext ==
    \/ GpuInitBegin /\ GpuRest
    \/ GpuInitResume /\ GpuRest
    \/ GpuDestroy /\ GpuRest
    \/ PipelineCreate
    \/ PipelineDestroy
    \/ PipelineRender

(***************************************************************************)
(* CrtSubpixelProcessor: the facade over the managers and the use cases.   *)
(***************************************************************************)
processorMissing_Never == FALSE

\* !this.imageProcessor, !this.cameraProcessor: both are assigned by init()
\* and nulled by destroy()
processorMissing == ~processorsCreated

\* init() up to await this.gpuContext.init(): returns at once when
\* initialized, otherwise GpuContext.init() requests a device.
FacadeInitBegin ==
    /\ GpuInitBegin
    /\ calls' = <<>>
    /\ UNCHANGED <<settings, settingsConnected, canvasVars, mediaVars,
                   processorVars, facadeVars, imageExports>>
    /\ FacadeRest

\* init() after the await: GpuContext.init() finishes, the settings are
\* connected and synced, the pipeline is created and new ImageProcessor and
\* CameraProcessor objects replace the ones held.
FacadeInitResume ==
    /\ initsPending > 0
    /\ initsPending' = initsPending - 1
    /\ devicesCreated' = devicesCreated + 1
    /\ root' = devicesCreated + 1
    /\ handles' = AllHandles
    /\ gpuInitialized' = TRUE
    /\ settingsConnected' = TRUE
    /\ uniforms' = syncToGpu(InitialUniforms, settings)
    /\ pipelineCreated' = TRUE
    /\ processorsCreated' = TRUE
    /\ videoFrameCallbackId' = 0
    /\ lastFrameSize' = NoSize
    /\ pendingExport' = 0
    /\ frameCount' = 0
    /\ lastCall' = Called("init resumed", FALSE)
    /\ calls' = <<"writeOrientation", "writePixelDensity", "writeInterlaced",
                  "writeField">>
    /\ UNCHANGED <<releases, settings, canvasConfigured, currentCanvas,
                   currentContext, configureSucceeded, canvasSize, surface,
                   mediaVars, promises, lastFrame, currentImageBitmap,
                   imageExports>>
    /\ FacadeRest

\* init() after the await when pipeline.create throws: GpuContext.init()
\* has finished and the settings are connected and synced; the pipeline
\* field and the use cases keep what they held, and init() rejects.
FacadeInitPipelineFailed ==
    /\ initsPending > 0
    /\ initsPending' = initsPending - 1
    /\ devicesCreated' = devicesCreated + 1
    /\ root' = devicesCreated + 1
    /\ handles' = AllHandles
    /\ gpuInitialized' = TRUE
    /\ settingsConnected' = TRUE
    /\ uniforms' = syncToGpu(InitialUniforms, settings)
    /\ lastCall' = Called("init: pipeline.create threw", TRUE)
    /\ calls' = <<"writeOrientation", "writePixelDensity", "writeInterlaced",
                  "writeField">>
    /\ UNCHANGED <<releases, settings, pipelineCreated, canvasConfigured,
                   currentCanvas, currentContext, configureSucceeded,
                   canvasSize, surface, mediaVars, processorVars, facadeVars,
                   imageExports>>
    /\ FacadeRest

\* tgpu.init() rejected: init() rejects before anything is connected.
FacadeInitRejected ==
    /\ GpuInitRejected
    /\ calls' = <<>>
    /\ UNCHANGED <<settings, settingsConnected, canvasVars, mediaVars,
                   processorVars, facadeVars, imageExports>>
    /\ FacadeRest

\* destroy(): stopCamera, settingsManager.disconnect, pipeline.destroy,
\* canvasManager.reset, gpuContext.destroy, then the use cases and the
\* stored image are dropped.
FacadeDestroy ==
    /\ IF processorsCreated
       THEN stop /\ startedSinceStop' = FALSE
       ELSE UNCHANGED <<videoFrameCallbackId, cameraStream, liveStreams,
                        scheduled, lastFrameSize, frameCount, lastFrame,
                        promises, pendingExport, startedSinceStop>>
    /\ settingsConnected' = FALSE
    /\ pipelineCreated' = FALSE
    /\ canvasConfigured' = FALSE
    /\ currentCanvas' = 0
    /\ currentContext' = 0
    /\ configureSucceeded' = FALSE
    /\ GpuDestroy
    /\ processorsCreated' = FALSE
    /\ currentImageBitmap' = NoSize
    /\ calls' = <<>>
    /\ UNCHANGED <<settings, canvasSize, surface, streamsAcquired,
                   startsRequested, startsLoading, imageExports>>
    /\ FacadeRest

\* renderImage(canvas, input): rejects without the ImageProcessor;
\* otherwise stops a running camera, stores the image and renders it.
FacadeRenderImage(size) ==
    /\ IF processorMissing
       THEN /\ lastCall' = Called("renderImage: Processor not initialized", TRUE)
            /\ calls' = <<>>
            /\ UNCHANGED <<canvasVars, mediaVars, processorVars, facadeVars,
                           uniforms>>
       ELSE /\ IF isCameraRunning
               THEN stop /\ startedSinceStop' = FALSE
               ELSE UNCHANGED <<videoFrameCallbackId, cameraStream,
                                liveStreams, scheduled, lastFrameSize,
                                frameCount, lastFrame, promises,
                                pendingExport, startedSinceStop>>
            /\ currentImageBitmap' = size
            /\ IF renderRejects
               THEN /\ lastCall' = Called("render: Processor not initialized", TRUE)
                    /\ calls' = <<>>
                    /\ UNCHANGED <<canvasVars, uniforms>>
               ELSE /\ render(size, uniforms, settings)
                    /\ lastCall' = Called("renderImage", FALSE)
                    /\ UNCHANGED pipelineCreated
            /\ UNCHANGED <<processorsCreated, streamsAcquired,
                           startsRequested, startsLoading>>
    /\ UNCHANGED <<settings, settingsConnected, gpuInitialized, root, handles,
                   devicesCreated, releases, initsPending, imageExports>>
    /\ FacadeRest

\* startCamera(canvas, options): rejects without the CameraProcessor,
\* otherwise CameraProcessor.start.
FacadeStartCamera ==
    IF processorMissing
    THEN /\ lastCall' = Called("startCamera: Processor not initialized", TRUE)
         /\ calls' = <<>>
         /\ UNCHANGED <<canvasVars, mediaVars, processorVars>>
         /\ LifecycleRest
    ELSE IF startRejects THEN StartRejected ELSE StartBegin

\* exportImage(input, type, quality): null without the ImageProcessor (no
\* ImageProcessor.export call is made), otherwise ImageProcessor.export.
FacadeExportImage(k, size) ==
    IF processorMissing
    THEN /\ lastCall' = Called("exportImage: null", FALSE)
         /\ calls' = <<>>
         /\ UNCHANGED <<canvasVars, mediaVars, processorVars>>
         /\ LifecycleRest
    ELSE ImageExportBegin(k, size)

\* exportCameraFrame(type, quality): null without the CameraProcessor (no
\* exportFrame promise is made), otherwise CameraProcessor.exportFrame.
FacadeExportCameraFrame ==
    IF processorMissing
    THEN /\ lastCall' = Called("exportCameraFrame: null", FALSE)
         /\ calls' = <<>>
         /\ UNCHANGED <<canvasVars, mediaVars, processorVars>>
         /\ LifecycleRest
    ELSE ExportFrame

\* The size of the image passed to renderImage and exportImage.
FacadeSizes == {<<2, 2>>}

\* Densities passed to setPixelDensity, in halves: 0, 1 and 2.5.
FacadeDensities == {0, 2, 5}

\* The facade from construction through init(), use, destroy() and init()
\* again, with getUserMedia either pending or refused.
FacadeNext ==
    \/ FacadeInitBegin
    \/ FacadeInitResume
    \/ FacadeInitRejected
    \/ FacadeDestroy
    \/ \E size \in FacadeSizes : FacadeRenderImage(size)
    \/ FacadeStartCamera
    \/ StartFailed
    \/ \E k \in 1..MaxImageExports, size \in FacadeSizes : FacadeExportImage(k, size)
    \/ \E k \in 1..MaxImageExports : ImageExportResume(k)
    \/ FacadeExportCameraFrame
    \/ \E value \in {"columns", "rows"} : FacadeSetOrientation(value)
    \/ \E halves \in FacadeDensities : FacadeSetPixelDensity(halves)
    \/ \E value \in BOOLEAN : FacadeSetInterlaced(value)
    \/ \E value \in {"odd", "even"} : FacadeSetField(value)

\* stopCamera(): this.cameraProcessor?.stop()
FacadeStopCamera ==
    IF processorMissing
    THEN /\ lastCall' = Called("stopCamera", FALSE)
         /\ calls' = <<>>
         /\ UNCHANGED <<canvasVars, mediaVars, processorVars>>
         /\ LifecycleRest
    ELSE Stop

\* The facade switching between the camera and a still image, with settings
\* changed and camera frames exported in between, until it is destroyed.
ModesNext ==
    \/ FacadeStartCamera
    \/ StreamAcquired
    \/ \E stream \in startsLoading : StartResume(stream)
    \/ FacadeStopCamera
    \/ \E cb \in scheduled : ProcessVideoFrame(cb, <<1, 1>>, TRUE)
    \/ FacadeExportCameraFrame
    \/ \E size \in FacadeSizes : FacadeRenderImage(size)
    \/ \E value \in {"columns", "rows"} : FacadeSetOrientation(value)
    \/ FacadeDestroy

\* init() failing at either step and called again, with renderImage and
\* startCamera called in between.
InitRecoveryNext ==
    \/ FacadeInitBegin
    \/ FacadeInitResume
    \/ FacadeInitRejected
    \/ FacadeInitPipelineFailed
    \/ FacadeDestroy
    \/ \E size \in FacadeSizes : FacadeRenderImage(size)
    \/ FacadeStartCamera
    \/ StartFailed
    \/ \E value \in {"columns", "rows"} : FacadeSetOrientation(value)

\* The facade initialized, torn down and initialized again around the
\* setters, over a SettingsManager passed to its constructor.
ReinitNext ==
    \/ FacadeInitBegin
    \/ FacadeInitResume
    \/ FacadeInitRejected
    \/ FacadeDestroy
    \/ \E value \in {"columns", "rows"} : FacadeSetOrientation(value)
    \/ \E halves \in FacadeDensities : FacadeSetPixelDensity(halves)
    \/ \E value \in BOOLEAN : FacadeSetInterlaced(value)
    \/ \E value \in {"odd", "even"} : FacadeSetField(value)

\* The camera running on the initialized facade while the density changes
\* and still images are exported through the same context.
CameraExportNext ==
    \/ FacadeStartCamera
    \/ StreamAcquired
    \/ \E stream \in startsLoading : StartResume(stream)
    \/ FacadeStopCamera
    \/ \E cb \in scheduled, fs \in FrameSizes, ready \in BOOLEAN :
         ProcessVideoFrame(cb, fs, ready)
    \/ \E k \in 1..MaxImageExports, size \in FacadeSizes : FacadeExportImage(k, size)
    \/ \E k \in 1..MaxImageExports : ImageExportResume(k)
    \/ \E v \in CameraDensities : FacadeSetPixelDensity(2 * v)

\* ImageProcessor.render and export called while the pipeline, the canvas
\* and the GpuContext are created and torn down by their owner.
ImageGuardNext ==
    \/ \E size \in FrameSizes : RenderImage(size)
    \/ RenderImageRejected
    \/ \E k \in 1..MaxImageExports, size \in FrameSizes : ImageExportBegin(k, size)
    \/ \E k \in 1..MaxImageExports : ImageExportResume(k)
    \/ PipelineCreate
    \/ PipelineDestroy
    \/ CanvasReset
    \/ GpuDestroy /\ GpuRest

\* The camera loop while start() calls fail and the pipeline, the canvas
\* and the GpuContext are torn down by their owner.
LifecycleNext ==
    \/ StartBegin
    \/ StartRejected
    \/ StartCanvasFailed
    \/ StartFailed
    \/ StreamAcquired
    \/ \E stream \in startsLoading : StartResume(stream)
    \/ \E stream \in startsLoading : VideoFailed(stream)
    \/ Stop
    \/ \E cb \in scheduled, fs \in FrameSizes, ready \in BOOLEAN :
         ProcessVideoFrame(cb, fs, ready)
    \/ PipelineCreate
    \/ PipelineDestroy
    \/ CanvasReset
    \/ GpuDestroy /\ GpuRest

\* The camera loop with export requests.
Next ==
    \/ StartBegin
    \/ StreamAcquired
    \/ \E stream \in startsLoading : StartResume(stream)
    \/ Stop
    \/ ExportFrame
    \/ \E cb \in scheduled, fs \in FrameSizes, ready \in BOOLEAN :
         ProcessVideoFrame(cb, fs, ready)
    \/ \E p \in 1..MaxExports : BlobReady(p)

\* The camera loop with interlacing and the pixel density changed by the
\* caller.
InterlaceNext ==
    \/ StartBegin
    \/ StreamAcquired
    \/ \E stream \in startsLoading : StartResume(stream)
    \/ Stop
    \/ \E cb \in scheduled, fs \in FrameSizes, ready \in BOOLEAN :
         ProcessVideoFrame(cb, fs, ready)
    \/ \E v \in CameraDensities : FacadeSetPixelDensity(2 * v)
    \/ \E v \in BOOLEAN : SetInterlaced(v) /\ SettingsStep

\* Still images: render, export and the browser presenting the canvas.
ImageNext ==
    \/ \E size \in FrameSizes : RenderImage(size)
    \/ \E k \in 1..MaxImageExports, size \in FrameSizes : ImageExportBegin(k, size)
    \/ \E k \in 1..MaxImageExports : ImageExportResume(k)
    \/ Present
    \/ \E v \in CameraDensities : SetPixelDensity(2 * v) /\ SettingsStep

\* Still images rendered and exported, one export at a time, while the
\* camera starts and draws frames that are interlaced or not.
DrawOrderNext ==
    \/ StartBegin
    \/ StreamAcquired
    \/ \E stream \in startsLoading : StartResume(stream)
    \/ \E cb \in scheduled : ProcessVideoFrame(cb, <<1, 1>>, TRUE)
    \/ \E v \in BOOLEAN : SetInterlaced(v) /\ SettingsStep
    \/ \E size \in FacadeSizes : RenderImage(size)
    \/ \E size \in FacadeSizes : ImageExportBegin(1, size)
    \/ ImageExportResume(1)

(***************************************************************************)
(* SettingsManager with a GpuContext that is connected, disconnected,      *)
(* initialised and destroyed around it.                                    *)
(***************************************************************************)
\* Pixel densities a caller passes to the constructor.
ConstructorDensities == {0, 1, 2}

\* Pixel densities a caller passes to the setter, in halves: -1, 0, 0.5,
\* 1.5, 2, 2.5.
DensityInputs == {-2, 0, 1, 3, 4, 5}

\* Pixel densities a caller passes to updateSettings, in halves: 0.5, 2.5.
UpdateDensities == {1, 5}

SettingsKeys == {"orientation", "pixelDensity", "interlaced", "field"}

\* The arguments of updateSettings: the keys that are not undefined and the
\* values under them.
Partials ==
    {updates \in [keys : SUBSET SettingsKeys,
                  orientation : {"columns", "rows"},
                  pixelDensity : UpdateDensities,
                  interlaced : BOOLEAN,
                  field : {"odd", "even"}] :
        /\ "orientation" \notin updates.keys => updates.orientation = "columns"
        /\ "pixelDensity" \notin updates.keys => updates.pixelDensity = 1
        /\ "interlaced" \notin updates.keys => ~updates.interlaced
        /\ "field" \notin updates.keys => updates.field = "odd"}

\* new SettingsManager(initialSettings): the defaults, overwritten by the
\* values provided, each stored as it is.
SettingsManagerConstructed ==
    /\ settings \in [orientation : {"columns", "rows"},
                     pixelDensity : ConstructorDensities,
                     interlaced : BOOLEAN,
                     field : {"odd", "even"}]
    /\ settingsConnected = FALSE

\* connect(gpuContext): store the context, then syncToGpu(), which returns
\* at once unless the context is initialized.
Connect ==
    /\ settingsConnected' = TRUE
    /\ uniforms' = IF gpuInitialized THEN syncToGpu(uniforms, settings)
                   ELSE uniforms
    /\ calls' = IF gpuInitialized
                THEN <<"writeOrientation", "writePixelDensity",
                       "writeInterlaced", "writeField">>
                ELSE <<>>
    /\ UNCHANGED <<settings, gpuInitialized>>

\* disconnect()
Disconnect ==
    /\ settingsConnected' = FALSE
    /\ calls' = <<>>
    /\ UNCHANGED <<settings, gpuInitialized, uniforms>>

updateSettings_EveryKey(st, updates) ==
    setField(
        setInterlaced(
            setPixelDensity(
                setOrientation(st, updates.orientation),
                updates.pixelDensity),
            updates.interlaced),
        updates.field)

\* updateSettings(updates): each key that is not undefined goes through its
\* setter, in the order orientation, pixelDensity, interlaced, field.
updateSettings(st, updates) ==
    LET s1 == IF "orientation" \in updates.keys
              THEN setOrientation(st, updates.orientation) ELSE st
        s2 == IF "pixelDensity" \in updates.keys
              THEN setPixelDensity(s1, updates.pixelDensity) ELSE s1
        s3 == IF "interlaced" \in updates.keys
              THEN setInterlaced(s2, updates.interlaced) ELSE s2
    IN  IF "field" \in updates.keys
        THEN setField(s3, updates.field) ELSE s3

UpdateSettings(updates) == Store(updateSettings(Stored, updates))

\* updateSettings on a manager that is connected and disconnected.
UpdateSettingsNext ==
    \/ \E updates \in Partials : UpdateSettings(updates) /\ SettingsStep
    \/ Connect /\ SettingsStep
    \/ Disconnect /\ SettingsStep

\* A GpuContext that is either as constructed or initialized by one init().
GpuConstructedOrReady ==
    \E ready \in BOOLEAN :
        /\ gpuInitialized = ready
        /\ uniforms = (IF ready THEN InitialUniforms ELSE NoUniforms)
        /\ root = (IF ready THEN 1 ELSE 0)
        /\ handles = (IF ready THEN AllHandles ELSE {})
        /\ devicesCreated = (IF ready THEN 1 ELSE 0)
        /\ releases = [dev \in 1..MaxDevices |-> 0]
        /\ initsPending = 0
        /\ lastCall = NoCall

\* SettingsManager driven by a caller while its context is initialized and
\* destroyed.
SettingsNext ==
    \/ \E v \in {"columns", "rows"} : SetOrientation(v) /\ SettingsStep
    \/ \E v \in DensityInputs : SetPixelDensity(v) /\ SettingsStep
    \/ \E v \in BOOLEAN : SetInterlaced(v) /\ SettingsStep
    \/ \E v \in {"odd", "even"} : SetField(v) /\ SettingsStep
    \/ \E updates \in Partials : UpdateSettings(updates) /\ SettingsStep
    \/ Connect /\ SettingsStep
    \/ Disconnect /\ SettingsStep
    \/ GpuInitBegin /\ GpuRest
    \/ GpuInitResume /\ GpuRest
    \/ GpuDestroy /\ GpuRest

(***************************************************************************)
(* Claims about SubpixelRenderer (checked under SpecCalc).                 *)
(***************************************************************************)
\* C8 (as stated): for every density d >= 1 and every input (w, h) with
\* w, h >= 1, calculateOutputDimensions returns
\* (floor((w/d)*3), floor((h/d)*3)); for d = 1 this is (3w, 3h).
C8_ReturnsFloorForEveryInput ==
    calcOut.run =>
        /\ calcOut.result = [threw |-> FALSE,
                             width |-> (3 * calcIn.width) \div calcIn.density,
                             height |-> (3 * calcIn.height) \div calcIn.density]
        /\ (calcIn.density = 1 =>
                /\ calcOut.result.width = 3 * calcIn.width
                /\ calcOut.result.height = 3 * calcIn.height)

\* C9: calculatePixelDensityForTargetHeight returns an integer >= 1, and no
\* other integer density >= 1 gives an output height floor((height/d)*3)
\* strictly closer to the target.  Densities above 3*height all give output
\* height 0, so the search to 3*height + 1 covers every integer.
C9_DensityIsNearest ==
    calcDensity.run =>
        LET r == calcDensity.result
            h == calcIn.height
            t == calcIn.target
        IN  /\ r \in Nat
            /\ r >= 1
            /\ \A d \in 1..(3 * h + 1) :
                 Abs(((3 * h) \div d) - t) >= Abs(((3 * h) \div r) - t)

\* C9 witness: the ceil candidate was chosen because it is strictly closer.
C9_CeilChosen ==
    /\ calcDensity.run
    /\ (3 * calcIn.height) % calcIn.target # 0
    /\ calcDensity.ideal[1] >= 1
    /\ calcDensity.ideal[2] # calcDensity.ideal[1]
    /\ calcDensity.result = calcDensity.ideal[2]

\* C10: the result is the floor candidate max(1, floor(ideal)) whenever its
\* output height is at least as close to the target as that of the ceil
\* candidate max(1, ceil(ideal)), and the ceil candidate otherwise; input
\* height 964 with target 480 gives 6.
C10_FloorWinsTies ==
    calcDensity.run =>
        LET h == calcIn.height
            t == calcIn.target
            floorCandidate == Max(1, calcDensity.ideal[1])
            ceilCandidate == Max(1, calcDensity.ideal[2])
            floorDiff == Abs(((3 * h) \div floorCandidate) - t)
            ceilDiff == Abs(((3 * h) \div ceilCandidate) - t)
        IN  /\ floorDiff <= ceilDiff => calcDensity.result = floorCandidate
            /\ floorDiff > ceilDiff => calcDensity.result = ceilCandidate
            /\ (h = 964 /\ t = 480) => calcDensity.result = 6

\* C10 witness: a tie between two different candidates, settled for floor.
C10_TieSettledForFloor ==
    /\ calcDensity.run
    /\ LET h == calcIn.height
           t == calcIn.target
           floorCandidate == Max(1, calcDensity.ideal[1])
           ceilCandidate == Max(1, calcDensity.ideal[2])
       IN  /\ (3 * h) % t # 0
           /\ floorCandidate # ceilCandidate
           /\ Abs(((3 * h) \div floorCandidate) - t)
                = Abs(((3 * h) \div ceilCandidate) - t)
           /\ calcDensity.result = floorCandidate

(***************************************************************************)
(* Claims about the fragment shader (checked under SpecShader).            *)
(***************************************************************************)
\* C6 (as stated): with interlaced = true and field = Odd, output rows 0-2,
\* 6-8, 12-14, ... are rendered and rows 3-5, 9-11, ... are opaque black;
\* with field = Even the two sets of rows are swapped.  The field is the
\* user-level setting, carried by SettingsManager and GpuContext.writeField
\* into the shader's field uniform.
C6_OddFieldRendersRowsZeroToTwo ==
    (frag.run /\ frag.interlaced) =>
        LET band == (frag.y \div 3) % 2
            blockPos == IF frag.orientation = "rows"
                        THEN frag.y % 3 ELSE frag.x % 3
            renderedBand == IF frag.field = "odd" THEN 0 ELSE 1
        IN  IF band = renderedBand
            THEN /\ frag.color = IsolateChannel(blockPos, frag.sampled)
                 /\ (frag.sampled[blockPos + 1] # 0 => frag.color # Black)
            ELSE frag.color = Black

\* The block position floor(pixelCoord.axis) mod 3 of the last fragment.
FragBlockPos == IF frag.orientation = "rows" THEN frag.y % 3 ELSE frag.x % 3

\* C11 (as stated): for every output pixel exactly one of R, G, B is nonzero,
\* the one selected by floor(pixelCoord.axis) mod 3 (0 red, 1 green, 2 blue;
\* axis x for Columns, y for Rows), and alpha is passed through.
C11_ExactlyOneChannelNonzero ==
    frag.run =>
        /\ \A c \in 1..3 : (frag.color[c] # 0) <=> (c = FragBlockPos + 1)
        /\ frag.color[4] = frag.sampled[4]

\* C11 (amended): every output pixel is either blanked by the interlace gate
\* to (0,0,0,1), which happens only when interlacing is on, or carries the
\* sampled value of the channel selected by floor(pixelCoord.axis) mod 3 with
\* the other two channels 0 and the sampled alpha; a 1x1 white input at
\* density 1 in Columns, not interlaced, gives a 3x3 output whose columns are
\* pure red, green, blue with full alpha.
C11_OnlySelectedChannelKept ==
    frag.run =>
        /\ \/ /\ \A c \in 1..3 :
                    frag.color[c] = IF c = FragBlockPos + 1
                                    THEN frag.sampled[c] ELSE 0
              /\ frag.color[4] = frag.sampled[4]
           \/ frag.interlaced /\ frag.color = <<0, 0, 0, 1>>
        /\ (/\ ~frag.interlaced
            /\ frag.orientation = "columns"
            /\ frag.sampled = White
            /\ uniforms.inputDims = <<1, 1>>)
           => /\ uniforms.outputDims = <<3, 3>>
              /\ frag.color = CASE frag.x = 0 -> <<1, 0, 0, 1>>
                                 [] frag.x = 1 -> <<0, 1, 0, 1>>
                                 [] frag.x = 2 -> <<0, 0, 1, 1>>

\* C11 witness: the middle column of the 3x3 output of a 1x1 white input is
\* pure green.
C11_GreenColumnOfWhiteInput ==
    /\ frag.run
    /\ ~frag.interlaced
    /\ frag.orientation = "columns"
    /\ frag.sampled = White
    /\ uniforms.inputDims = <<1, 1>>
    /\ frag.x = 1
    /\ frag.y = 2
    /\ frag.color = <<0, 1, 0, 1>>

(***************************************************************************)
(* Steps of the camera loop, as the claims speak of them.                  *)
(***************************************************************************)
\* A frame callback ran.
TickStep ==
    \E cb \in scheduled, fs \in FrameSizes, ready \in BOOLEAN :
        ProcessVideoFrame(cb, fs, ready)

\* A frame callback ran and drew a frame.
RenderedTickStep ==
    /\ TickStep
    /\ \E i \in 1..Len(calls') : calls'[i] = "draw"

\* stop() ran: called directly, or as the first statement of start().
StopStep == Stop \/ StartBegin

Exports == 1..MaxExports

\* In trace, call a is immediately followed by call b.
ImmediatelyFollowedBy(trace, a, b) ==
    \E i \in 1..(Len(trace) - 1) : trace[i] = a /\ trace[i + 1] = b

\* In trace, call a comes before call b.
ComesBefore(trace, a, b) ==
    \E i \in 1..Len(trace), j \in 1..Len(trace) :
        i < j /\ trace[i] = a /\ trace[j] = b

(***************************************************************************)
(* Claims about CameraProcessor exports (checked under Spec).              *)
(***************************************************************************)
\* C1 (as stated): every promise returned by exportFrame is settled once a
\* rendered tick or a stop() follows the request, however many exportFrame
\* calls were made between two ticks: a promise still pending when a tick
\* renders has its capture taken by that tick, a promise still pending when
\* stop() runs is resolved by it.  In the form a finite run refutes: no
\* promise is pending both before and after such a step.
C1_EveryRequestSettledByTickOrStop ==
    [][(RenderedTickStep \/ StopStep) =>
          \A p \in Exports :
              promises[p].state = "pending" => promises'[p].state # "pending"]_vars

\* C2 (as stated): when stop() runs while an export is pending, the pending
\* promise is resolved with null, never rejected and never left pending,
\* and the pending slot is empty when stop() returns.
C2_StopResolvesPendingWithNull ==
    [][StopStep =>
          /\ pendingExport' = 0
          /\ \A p \in Exports :
                 promises[p].state = "pending" =>
                     /\ promises'[p].state = "resolved"
                     /\ promises'[p].value = "null"]_vars

\* C3: exportFrame called while no canvas is configured or while the camera
\* is inactive returns a promise resolved with null, creates no
\* PendingExport and leaves the pending slot and every other promise as
\* they were.
C3_NotReadyExportResolvesNull ==
    [][(ExportFrame /\ (~canvasConfigured \/ cameraStream = 0)) =>
          /\ promises'[NextPromise].state = "resolved"
          /\ promises'[NextPromise].value = "null"
          /\ pendingExport' = pendingExport
          /\ \A p \in Exports \ {NextPromise} : promises'[p] = promises[p]]_vars

\* C3 witness: exportFrame has returned null with a canvas configured and
\* the camera inactive.
C3_NullWhileCameraInactive ==
    /\ canvasConfigured
    /\ cameraStream = 0
    /\ pendingExport = 0
    /\ \E p \in Exports : promises[p] = ResolvedNull("exportFrame")

\* C4 (as stated): a PendingExport created while the loop is active is
\* consumed by the first tick that renders after its creation: that tick
\* starts the capture right after its own draw and before rescheduling,
\* takes it from the surface it has just drawn, and empties the slot; the
\* promise then settles with the blob of that capture and no later tick
\* captures for it again.
C4_PendingExportConsumedByNextRender ==
    [][/\ RenderedTickStep =>
            /\ pendingExport' = 0
            /\ \A p \in Exports :
                   promises[p].state = "pending" =>
                       /\ promises'[p].state = "capturing"
                       /\ promises'[p].capture = surface'
                       /\ surface' = CameraDraw(frameCount)
                       /\ ImmediatelyFollowedBy(calls', "draw", "toBlobSync")
                       /\ ComesBefore(calls', "toBlobSync",
                                      "requestVideoFrameCallback")
       /\ \A p \in Exports :
              promises[p].state = "capturing" =>
                  /\ promises'[p].capture = promises[p].capture
                  /\ promises'[p].state \in {"capturing", "resolved"}
                  /\ promises'[p].state = "resolved" =>
                         promises'[p].value = "blob"]_vars

\* C20 (as stated): at most one camera stream is live (acquired and its
\* tracks not yet stopped) at any time, for every interleaving of start()
\* and stop() calls, start() being asynchronous.
C20_AtMostOneStreamLive == Cardinality(liveStreams) <= 1

(***************************************************************************)
(* Claims about the interlaced camera loop (checked under SpecInterlace).  *)
(***************************************************************************)
\* C7: while interlacing is enabled, a rendering tick writes the field
\* chosen by the frame counter (even -> Odd, odd -> Even) before its draw;
\* the counter grows by one on a rendering tick and not at all on any other
\* tick; so two consecutive interlaced frames of a run use opposite fields,
\* and the first frame rendered after start() was called (start() runs
\* stop(), which resets the counter) uses Odd.
C7_FieldAlternatesWithFrameCounter ==
    [][/\ RenderedTickStep => frameCount' = frameCount + 1
       /\ (TickStep /\ ~RenderedTickStep) => frameCount' = frameCount
       /\ StartBegin => (frameCount' = 0 /\ lastFrame' = NoFrame)
       /\ (RenderedTickStep /\ settings.interlaced) =>
            /\ settings'.field = (IF frameCount % 2 = 0 THEN "odd" ELSE "even")
            /\ uniforms'.field = (IF frameCount % 2 = 0 THEN 1 ELSE 0)
            /\ lastFrame'.field = uniforms'.field
            /\ ComesBefore(calls', "writeField", "draw")
            /\ lastFrame = NoFrame => settings'.field = "odd"
            /\ (lastFrame # NoFrame /\ lastFrame.interlaced) =>
                   lastFrame'.field # lastFrame.field]_vars

\* C7 witness: the second interlaced frame of a run was drawn with the Even
\* field.
C7_SecondFrameEven ==
    /\ frameCount = 2
    /\ lastFrame # NoFrame
    /\ lastFrame.interlaced
    /\ lastFrame.field = 0
    /\ settings.field = "even"

(***************************************************************************)
(* Claims about ImageProcessor.export (checked under SpecImage).           *)
(***************************************************************************)
\* C5: export starts the capture immediately after its draw and before
\* flush(), in the same uninterrupted run of the handler, so that the
\* capture holds the export's own draw; the blob returned after the flush
\* is the one of that capture.
C5_CaptureStartedBeforeFlush ==
    [][\A k \in 1..MaxImageExports :
          /\ (imageExports[k].pc # "flush" /\ imageExports'[k].pc = "flush") =>
                /\ ImmediatelyFollowedBy(calls', "draw", "toBlobSync")
                /\ ImmediatelyFollowedBy(calls', "toBlobSync", "flush")
                /\ imageExports'[k].capture = ImageDraw(k)
          /\ (imageExports[k].pc = "flush" /\ imageExports'[k].pc = "returned") =>
                /\ imageExports'[k].result = "blob"
                /\ imageExports'[k].capture = imageExports[k].capture
                /\ imageExports'[k].capture = ImageDraw(k)]_vars

\* C5 witness: an export returned the blob of its own draw although the
\* canvas no longer held that draw when the export resumed.
C5_ReturnedOwnDrawAfterSurfaceChanged ==
    \E k \in 1..MaxImageExports :
        /\ imageExports[k].pc = "returned"
        /\ imageExports[k].result = "blob"
        /\ imageExports[k].capture = ImageDraw(k)
        /\ imageExports[k].resumedOn # ImageDraw(k)

(***************************************************************************)
(* Claims about GpuContext (checked under SpecGpu).                        *)
(***************************************************************************)
\* A step of an init() call: its start or its continuation after the await.
InitStep == GpuInitBegin \/ GpuInitResume

\* The names of the write accessors.
WriteNames == {write.name : write \in Writes}

\* C12 (as stated): an init() call made on a context that init() was already
\* called on creates no new device, sampler or uniform buffer and leaves
\* every handle and buffer value unchanged, and throws nothing: no step of
\* an init() call changes a context that already holds a device.
C12_SecondInitAllocatesNothing ==
    [][(InitStep /\ root # 0) =>
          /\ UNCHANGED <<root, handles, uniforms, devicesCreated>>
          /\ ~lastCall'.threw]_vars

\* C13: the continuation of init() that initialises the context leaves
\* initialized true, the sampler and the six buffers non-null and the
\* buffers holding (1,1), (1,1), 0, 1, 0, 1; and initialized is never true
\* while the sampler or a buffer is missing.
C13_InitCreatesEverythingFirst ==
    /\ [](gpuInitialized => (root # 0 /\ BufferHandles \cup {"sampler"} \subseteq handles))
    /\ [][GpuInitResume =>
            /\ gpuInitialized'
            /\ BufferHandles \cup {"sampler"} \subseteq handles'
            /\ uniforms' = [outputDims |-> <<1, 1>>, inputDims |-> <<1, 1>>,
                            orientation |-> 0, pixelDensity |-> 1,
                            interlaced |-> 0, field |-> 1]]_vars

\* C13 witness: init() has just resolved on a context that had been
\* initialized and destroyed before.
C13_InitResolvedAfterReinit ==
    /\ lastCall.name = "init resumed"
    /\ devicesCreated = 2
    /\ releases[1] = 1
    /\ gpuInitialized
    /\ uniforms.field = 1

\* C14: a getter or write accessor throws "GpuContext not initialized"
\* exactly when it is called while initialized is false (before init() has
\* completed, or after destroy()), and succeeds whenever initialized is true.
C14_AccessorsThrowIffUninitialized ==
    lastCall.name \in Getters \cup WriteNames =>
        (lastCall.threw <=> ~lastCall.initialized)

\* C14 witness: a write accessor threw on a context that had been
\* initialized and destroyed.
C14_WriteThrewAfterDestroy ==
    /\ lastCall.name = "writeField"
    /\ lastCall.threw
    /\ releases[1] = 1
    /\ initsPending = 0

\* C15: destroy() releases the device held in root, nulls root and every
\* other handle and sets initialized to false; it throws nothing whenever it
\* is called, and no device is ever released twice.
C15_DestroyReleasesOnce ==
    /\ [](\A dev \in 1..MaxDevices : releases[dev] <= 1)
    /\ [][GpuDestroy =>
            /\ root' = 0
            /\ handles' = {}
            /\ ~gpuInitialized'
            /\ ~lastCall'.threw
            /\ \A dev \in 1..MaxDevices :
                 releases'[dev] = IF dev = root THEN 1 ELSE releases[dev]]_vars

\* C15 witness: destroy() was called again on a context already destroyed.
C15_DestroyedTwice ==
    /\ lastCall.name = "destroy"
    /\ ~lastCall.initialized
    /\ releases[1] = 1
    /\ devicesCreated = 1
    /\ initsPending = 0
    /\ root = 0

(***************************************************************************)
(* Claims about SettingsManager (checked under SpecSettings).              *)
(***************************************************************************)
\* What a setter of key must leave behind: the value stored, and the uniform
\* written with written by one call of writer exactly when a context is
\* connected and initialized, nothing written otherwise.
SetterEffect(key, value, written, writer) ==
    /\ settings' = [settings EXCEPT ![key] = value]
    /\ IF settingsConnected /\ gpuInitialized
       THEN /\ uniforms' = [uniforms EXCEPT ![key] = written]
            /\ calls' = <<writer>>
       ELSE /\ uniforms' = uniforms
            /\ calls' = <<>>

\* C16: every setter stores the new value (the pixel density clamped)
\* whether or not a context is attached, makes exactly one call of the
\* matching GpuContext writer when a context is connected and initialized
\* and none otherwise; the writer it calls cannot throw, because initialized
\* implies that the buffers exist.
C16_SettersStoreAlwaysWriteWhenAttached ==
    /\ [](gpuInitialized => BufferHandles \subseteq handles)
    /\ [][/\ \A v \in {"columns", "rows"} :
              SetOrientation(v) =>
                  SetterEffect("orientation", v, IF v = "rows" THEN 1 ELSE 0,
                               "writeOrientation")
          /\ \A v \in DensityInputs :
              SetPixelDensity(v) =>
                  SetterEffect("pixelDensity", Max(1, v \div 2),
                               Max(1, v \div 2), "writePixelDensity")
          /\ \A v \in BOOLEAN :
              SetInterlaced(v) =>
                  SetterEffect("interlaced", v, IF v THEN 1 ELSE 0,
                               "writeInterlaced")
          /\ \A v \in {"odd", "even"} :
              SetField(v) =>
                  SetterEffect("field", v, IF v = "odd" THEN 1 ELSE 0,
                               "writeField")]_vars

\* C16 witness: the orientation was set to rows with no context attached;
\* the context initialized and synced earlier still holds columns.
C16_SetWithoutContext ==
    /\ ~settingsConnected
    /\ gpuInitialized
    /\ settings.orientation = "rows"
    /\ settings.interlaced
    /\ uniforms.interlaced = 1
    /\ uniforms.orientation = 0
    /\ calls = <<>>

\* C17 (as stated): the pixel density held by SettingsManager and the value
\* in the density uniform are integers >= 1 in every reachable state,
\* whatever number was supplied at construction, through the setter or
\* through updateSettings.
C17_DensityAtLeastOneEverywhere ==
    /\ settings.pixelDensity \in Nat
    /\ settings.pixelDensity >= 1
    /\ (gpuInitialized =>
           (uniforms.pixelDensity \in Nat /\ uniforms.pixelDensity >= 1))

\* C18 (as stated): when connect returns on an initialized context, the
\* orientation, density, interlaced and field uniforms of that context equal
\* the current settings.
C18_ConnectLeavesUniformsEqualToSettings ==
    [][(Connect /\ gpuInitialized) =>
          /\ settingsConnected'
          /\ uniforms'.orientation = (IF settings'.orientation = "rows" THEN 1 ELSE 0)
          /\ uniforms'.pixelDensity = settings'.pixelDensity
          /\ uniforms'.interlaced = (IF settings'.interlaced THEN 1 ELSE 0)
          /\ uniforms'.field = (IF settings'.field = "odd" THEN 1 ELSE 0)]_vars

\* The uniform value a setting is written as.
UniformOf(key, value) ==
    CASE key = "orientation" -> IF value = "rows" THEN 1 ELSE 0
      [] key = "pixelDensity" -> value
      [] key = "interlaced" -> IF value THEN 1 ELSE 0
      [] key = "field" -> IF value = "odd" THEN 1 ELSE 0

\* The GpuContext writer of a setting.
WriterOf(key) ==
    CASE key = "orientation" -> "writeOrientation"
      [] key = "pixelDensity" -> "writePixelDensity"
      [] key = "interlaced" -> "writeInterlaced"
      [] key = "field" -> "writeField"

\* The number of calls of writer in trace.
CallsOf(trace, writer) ==
    Cardinality({i \in 1..Len(trace) : trace[i] = writer})

\* C19: updateSettings(partial) leaves the stored value and the uniform of
\* every absent key as they were and makes no call of its writer; a provided
\* key is stored (the pixel density as max(1, floor(value)), as the setter
\* does) and written through once exactly when a context is connected and
\* initialized.
C19_UpdateSettingsAppliesProvidedKeysOnly ==
    [][\A updates \in Partials :
          UpdateSettings(updates) =>
              /\ uniforms'.outputDims = uniforms.outputDims
              /\ uniforms'.inputDims = uniforms.inputDims
              /\ \A key \in SettingsKeys :
                   LET stored == IF key = "pixelDensity"
                                 THEN Max(1, updates.pixelDensity \div 2)
                                 ELSE updates[key]
                       through == settingsConnected /\ gpuInitialized
                   IN  IF key \in updates.keys
                       THEN /\ settings'[key] = stored
                            /\ uniforms'[key] = IF through
                                                THEN UniformOf(key, stored)
                                                ELSE uniforms[key]
                            /\ CallsOf(calls', WriterOf(key))
                                 = IF through THEN 1 ELSE 0
                       ELSE /\ settings'[key] = settings[key]
                            /\ uniforms'[key] = uniforms[key]
                            /\ CallsOf(calls', WriterOf(key)) = 0]_vars

\* C19 witness: one updateSettings call wrote the orientation and the field
\* and skipped the two keys between them; the density constructed as 2 and
\* the interlace flag are as they were.
C19_OrientationAndFieldOnly ==
    /\ calls = <<"writeOrientation", "writeField">>
    /\ settings.orientation = "rows"
    /\ settings.field = "even"
    /\ settings.pixelDensity = 2
    /\ uniforms.orientation = 1
    /\ uniforms.field = 0

(***************************************************************************)
(* Claims about stopping and starting the camera.                          *)
(***************************************************************************)
\* C21: CameraManager.stop() leaves no current stream; a call made while a
\* stream is current halts the tracks of that stream and of no other and
\* drops the callbacks of its video; a call made with no current stream
\* (a second stop, or a manager never started) halts no track and changes
\* neither the live streams nor the registered callbacks; and a further
\* stop() on the state a stop() leaves changes nothing and halts no track.
C21_CameraManagerStopIdempotent ==
    [][StopStep =>
          LET again == CameraManagerStop(cameraStream', liveStreams',
                                         scheduled')
          IN  /\ cameraStream' = 0
              /\ liveStreams' = liveStreams \ {cameraStream}
              /\ \A cb \in scheduled' : cb.video # cameraStream
              /\ cameraStream = 0 =>
                     /\ liveStreams' = liveStreams
                     /\ scheduled' = scheduled
              /\ again.stopped = {}
              /\ again.cameraStream = cameraStream'
              /\ again.liveStreams = liveStreams'
              /\ again.scheduled = scheduled']_vars

\* C21 witness: a camera that ran has been stopped: a stream was acquired,
\* no start is in flight, and no stream is live or current any more.
C21_StoppedAfterRunning ==
    /\ streamsAcquired > 0
    /\ startsRequested = 0
    /\ startsLoading = {}
    /\ cameraStream = 0
    /\ liveStreams = {}

\* C22 (as stated): when CameraProcessor.stop() returns the camera is
\* inactive, no frame callback is scheduled and the stored callback id is
\* cleared, lastFrameSize is null, the frame counter is 0 and the
\* pending-export slot is empty; a stop() on a stopped processor changes
\* nothing; and a tick draws a frame only if start() was called after the
\* last stop() call.
C22_StopLeavesNothingRunning ==
    [][/\ StopStep =>
            /\ cameraStream' = 0
            /\ scheduled' = {}
            /\ videoFrameCallbackId' = 0
            /\ lastFrameSize' = NoSize
            /\ frameCount' = 0
            /\ pendingExport' = 0
       /\ (Stop /\ cameraStream = 0 /\ videoFrameCallbackId = 0
                 /\ pendingExport = 0) =>
            UNCHANGED <<canvasVars, liveStreams, scheduled, promises,
                        settingsVars>>
       /\ RenderedTickStep => startedSinceStop]_vars

\* The first step of a start() call.
StartCalled == StartBegin \/ StartRejected \/ StartCanvasFailed

\* The step in which the camera of a start() call fails to start.
CameraFailed == StartFailed \/ \E stream \in startsLoading : VideoFailed(stream)

\* C23: a start() call made while the GPU context is not initialized or the
\* pipeline is not created rejects with "Processor not initialized" and
\* changes neither the canvas, the camera, the callbacks nor the processor
\* fields; any other start() call first leaves what stop() leaves, then
\* configures the canvas, and schedules nothing before the camera has
\* started: a callback is only ever added while a stream is current, the
\* resuming call stores its stream and schedules one callback on its video
\* whose id it stores, and a call whose camera fails to start rejects and
\* schedules nothing.
C23_StartRejectsOrRestarts ==
    [][/\ (StartCalled /\ (~gpuInitialized \/ ~pipelineCreated)) =>
            /\ lastCall' = Called("start: Processor not initialized", TRUE)
            /\ UNCHANGED <<canvasVars, mediaVars, processorVars, settingsVars>>
       /\ (StartCalled /\ gpuInitialized /\ pipelineCreated) =>
            /\ cameraStream' = 0
            /\ videoFrameCallbackId' = 0
            /\ lastFrameSize' = NoSize
            /\ pendingExport' = 0
            /\ scheduled' \subseteq scheduled
            /\ \/ /\ canvasConfigured' /\ currentCanvas' = DisplayCanvas
                  /\ startsRequested' = startsRequested + 1
               \/ /\ lastCall' = Called("start: no WebGPU context", TRUE)
                  /\ UNCHANGED <<canvasVars, startsRequested>>
       /\ ~(scheduled' \subseteq scheduled) => cameraStream' # 0
       /\ \A stream \in startsLoading : StartResume(stream) =>
            /\ cameraStream' = stream
            /\ stream \in liveStreams'
            /\ scheduled' =
                   scheduled \cup {[id |-> videoFrameCallbackId', video |-> stream]}
            /\ scheduled' # scheduled
       /\ CameraFailed =>
            /\ lastCall' = Called("start: camera failed", TRUE)
            /\ UNCHANGED <<scheduled, videoFrameCallbackId, cameraStream,
                           canvasVars, processorVars>>]_vars

\* C23 witness: start() has just been rejected on a processor whose
\* pipeline was destroyed while its camera was running, and the camera
\* still runs with its next callback scheduled.
C23_RejectedWhileRunning ==
    /\ lastCall = [name |-> "start: Processor not initialized",
                   initialized |-> TRUE, threw |-> TRUE]
    /\ ~pipelineCreated
    /\ cameraStream # 0
    /\ [id |-> videoFrameCallbackId, video |-> cameraStream] \in scheduled

(***************************************************************************)
(* Claims about the canvas.                                                *)
(***************************************************************************)
\* The pixel density was set through the facade while the camera was
\* running and had drawn a frame.
DensityChangedWhileRunning ==
    /\ cameraStream # 0
    /\ lastFrameSize # NoSize
    /\ \E v \in CameraDensities : FacadeSetPixelDensity(2 * v)

CanvasAccessStep ==
    \/ \E size \in QuarterSizes : SetSize(size)
    \/ SetAspectRatio
    \/ GetCurrentTextureView

NotConfiguredErrors ==
    {"setSize: Canvas not configured", "setAspectRatio: Canvas not configured",
     "getCurrentTextureView: Canvas not configured"}

\* C25 (as stated): getCurrentTextureView, setSize and setAspectRatio fail
\* with "Canvas not configured" whenever no configure() has succeeded since
\* construction or since the last reset(); and a configure() that fails
\* because the canvas gives no GPU context leaves canvas, context and
\* isConfigured as they were.
C25_NotConfiguredUntilConfigureSucceeds ==
    [][/\ (CanvasAccessStep /\ ~configureSucceeded) =>
            /\ lastCall'.threw
            /\ lastCall'.name \in NotConfiguredErrors
            /\ UNCHANGED canvasVars
       /\ \A canvas \in Canvases : CanvasConfigure(canvas, FALSE) =>
            /\ lastCall'.threw
            /\ UNCHANGED <<currentCanvas, currentContext, canvasConfigured>>]_vars

(***************************************************************************)
(* Claims about the render pipeline and the image processor.               *)
(***************************************************************************)
\* C26: a RenderPipeline starts without a pipeline; render on one that has
\* none throws "Pipeline not created" and draws nothing; create() leaves
\* isCreated true when it returns and as it was when it throws, destroy()
\* leaves it false, and no other call changes it.
C26_RenderNeedsPipeline ==
    /\ ~pipelineCreated
    /\ [][/\ (PipelineRender /\ ~pipelineCreated) =>
               /\ lastCall' = Called("Pipeline not created", TRUE)
               /\ calls' = <<>>
               /\ UNCHANGED <<surface, uniforms>>
          /\ PipelineCreate =>
               pipelineCreated' = (pipelineCreated \/ ~lastCall'.threw)
          /\ PipelineDestroy => ~pipelineCreated'
          /\ ~(PipelineCreate \/ PipelineDestroy) =>
               UNCHANGED pipelineCreated]_vars

\* C26 witness: render has thrown "Pipeline not created" on a pipeline
\* that had drawn before it was destroyed, with the GpuContext still
\* initialized.
C26_RenderThrewAfterDestroy ==
    /\ lastCall = [name |-> "Pipeline not created", initialized |-> TRUE,
                   threw |-> TRUE]
    /\ ~pipelineCreated
    /\ surface = ImageDraw(0)

\* C27: ImageProcessor.render called while the GpuContext is not initialized
\* or the pipeline is not created rejects with "Processor not initialized"
\* and does nothing else: the canvas is not configured or resized, no uniform
\* is written and nothing is drawn.
C27_RenderRejectsWithoutSideEffect ==
    [][(/\ ~gpuInitialized \/ ~pipelineCreated
        /\ RenderImageRejected \/ \E size \in FrameSizes : RenderImage(size))
       => /\ lastCall'.name = "render: Processor not initialized"
          /\ lastCall'.threw
          /\ calls' = <<>>
          /\ UNCHANGED <<canvasVars, uniforms>>]_vars

\* a render() rejected on a canvas an earlier render() had configured, after
\* the pipeline was destroyed under an initialized GpuContext
C27_RenderRejectedAfterPipelineDestroy ==
    /\ lastCall = [name |-> "render: Processor not initialized",
                   initialized |-> TRUE, threw |-> TRUE]
    /\ ~pipelineCreated
    /\ canvasConfigured
    /\ surface = ImageDraw(0)

\* C28: ImageProcessor.export called while the GpuContext is not initialized,
\* the pipeline is not created or no canvas is configured returns null: it
\* does not throw, writes no uniform, draws nothing and leaves the canvas.
C28_ExportNullWhenNotReady ==
    [][\A k \in 1..MaxImageExports :
         (/\ ~gpuInitialized \/ ~pipelineCreated \/ ~canvasConfigured
          /\ \E size \in FrameSizes : ImageExportBegin(k, size))
         => /\ imageExports'[k].pc = "returned"
            /\ imageExports'[k].result = "null"
            /\ calls' = <<>>
            /\ UNCHANGED <<canvasVars, uniforms>>]_vars

\* an export() that returned null because the canvas had been reset, with
\* the GpuContext initialized and the pipeline created
C28_ExportNullWithoutCanvas ==
    /\ \E k \in 1..MaxImageExports :
         /\ imageExports[k].pc = "returned"
         /\ imageExports[k].result = "null"
    /\ gpuInitialized
    /\ pipelineCreated
    /\ ~canvasConfigured
    /\ calls = <<>>

\* C29: while the facade is not initialized (no init() has completed since
\* construction or since the last destroy()), renderImage and startCamera
\* reject with the facade's not-initialized error, exportImage and
\* exportCameraFrame resolve to null, and each of the four setters stores its
\* value (the density floored and clamped to 1) and does nothing else.
C29_UninitializedFacade ==
    [][~gpuInitialized =>
         /\ (\E size \in FacadeSizes : FacadeRenderImage(size))
              => /\ lastCall'.name = "renderImage: Processor not initialized"
                 /\ lastCall'.threw
         /\ FacadeStartCamera
              => /\ lastCall'.name = "startCamera: Processor not initialized"
                 /\ lastCall'.threw
         /\ (\E k \in 1..MaxImageExports, size \in FacadeSizes :
                  FacadeExportImage(k, size))
              => /\ lastCall'.name = "exportImage: null"
                 /\ ~lastCall'.threw
                 /\ UNCHANGED <<imageExports, uniforms, canvasVars>>
         /\ FacadeExportCameraFrame
              => /\ lastCall'.name = "exportCameraFrame: null"
                 /\ ~lastCall'.threw
                 /\ UNCHANGED <<promises, pendingExport>>
         /\ \A value \in {"columns", "rows"} :
              FacadeSetOrientation(value)
              => /\ settings' = [settings EXCEPT !.orientation = value]
                 /\ UNCHANGED <<gpuVars, canvasVars, uniforms>>
         /\ \A halves \in FacadeDensities :
              FacadeSetPixelDensity(halves)
              => /\ settings' = [settings EXCEPT
                                   !.pixelDensity = Max(1, MathFloor(halves))]
                 /\ UNCHANGED <<gpuVars, canvasVars, uniforms>>
         /\ \A value \in BOOLEAN :
              FacadeSetInterlaced(value)
              => /\ settings' = [settings EXCEPT !.interlaced = value]
                 /\ UNCHANGED <<gpuVars, canvasVars, uniforms>>
         /\ \A value \in {"odd", "even"} :
              FacadeSetField(value)
              => /\ settings' = [settings EXCEPT !.field = value]
                 /\ UNCHANGED <<gpuVars, canvasVars, uniforms>>]_vars

\* renderImage rejected on a facade that had rendered an image and was then
\* destroyed, with a density set after the destroy()
C29_RenderImageRejectedAfterDestroy ==
    /\ lastCall = [name |-> "renderImage: Processor not initialized",
                   initialized |-> FALSE, threw |-> TRUE]
    /\ releases[1] = 1
    /\ surface = ImageDraw(0)
    /\ settings.pixelDensity = 2
    /\ uniforms = NoUniforms

\* The guard of processVideoFrame fails: a component is unready or the
\* camera is inactive.
TickUnready ==
    ~gpuInitialized \/ ~pipelineCreated \/ ~canvasConfigured \/ cameraStream = 0

\* What a tick that only schedules leaves alone.
TickKeepsState ==
    UNCHANGED <<settings, uniforms, gpuVars, canvasVars, cameraStream,
                liveStreams, lastFrameSize, pendingExport, frameCount,
                promises, lastFrame>>

\* C30: a camera tick that issues no draw changes nothing but the scheduling:
\* with a component unready or the camera inactive it does nothing (its own
\* callback is spent, no other is registered); with the video not yet
\* decodable it registers the next callback and nothing else.
C30_NonRenderingTickOnlySchedules ==
    [][\A cb \in scheduled, fs \in FrameSizes, ready \in BOOLEAN :
         (/\ ProcessVideoFrame(cb, fs, ready)
          /\ CallsOf(calls', "draw") = 0)
         => /\ TickKeepsState
            /\ TickUnready
                 => /\ scheduled' = scheduled \ {cb}
                    /\ UNCHANGED videoFrameCallbackId
            /\ ~TickUnready
                 => LET req == requestVideoFrameCallback(
                                   scheduled \ {cb}, cameraStream,
                                   videoFrameCallbackId)
                    IN  /\ scheduled' = req.scheduled
                        /\ videoFrameCallbackId' = req.id]_vars

\* The output dimensions calculateOutputDimensions gives for a frame of
\* size fs at the given density, as the pair a uniform holds; <<0, 0>> when
\* it throws.
OutputFor(fs, density) ==
    LET out == calculateOutputDimensions(Dimensions(fs[1], fs[2]),
                                         PixelDensityFrom(density))
    IN  IF out.threw THEN <<0, 0>> ELSE <<out.width, out.height>>

\* C31: at every draw of a camera tick the input-dimensions uniform is the
\* size of the frame drawn and the output-dimensions uniform is
\* calculateOutputDimensions of that size at the current pixel density.
C31_TickDrawsWithItsOwnDimensions ==
    [][\A cb \in scheduled, fs \in FrameSizes :
         (/\ ProcessVideoFrame(cb, fs, TRUE)
          /\ CallsOf(calls', "draw") = 1)
         => /\ uniforms'.inputDims = fs
            /\ uniforms'.outputDims = OutputFor(fs, settings'.pixelDensity)]_vars

(***************************************************************************)
(* Specifications.                                                         *)
(***************************************************************************)
CalcNext ==
    \/ CallCalculateOutputDimensions /\ UNCHANGED <<settingsVars, gpuVars, shaderVars, cameraVars>>
    \/ CallCalculatePixelDensity /\ UNCHANGED <<settingsVars, gpuVars, shaderVars, cameraVars>>

InitCalc == CalcInit /\ SettingsInit /\ GpuReady /\ ShaderRest /\ CameraInit

SpecCalc == InitCalc /\ [][CalcNext]_vars

InitShader == ShaderInit /\ GpuReady /\ CalcRest /\ CameraInit

SpecShader == InitShader /\ [][ShaderNext]_vars

InitSample == SampleInit /\ GpuReady /\ CalcRest /\ CameraInit

SpecSample == InitSample /\ [][SampleNext]_vars

Init == SettingsInit /\ GpuReady /\ CalcRest /\ ShaderRest /\ CameraInit

Spec == Init /\ [][Next]_vars

SpecInterlace == Init /\ [][InterlaceNext]_vars

SpecImage == Init /\ [][ImageNext]_vars

SpecDrawOrder == Init /\ [][DrawOrderNext]_vars

SpecLifecycle == Init /\ [][LifecycleNext]_vars

SpecCanvasSize == Init /\ [][CanvasSizeNext]_vars

InitSettings ==
    GpuConstructed /\ SettingsManagerConstructed /\ CalcRest /\ ShaderRest /\ CameraConstructed

SpecSettings == InitSettings /\ [][SettingsNext]_vars

InitUpdateSettings ==
    GpuConstructedOrReady /\ SettingsManagerConstructed /\ CalcRest /\ ShaderRest /\ CameraConstructed

SpecUpdateSettings == InitUpdateSettings /\ [][UpdateSettingsNext]_vars

\* A SettingsManager constructed with the defaults and not connected.
SettingsConstructed ==
    /\ settings = DefaultSettings
    /\ settingsConnected = FALSE

InitGpu ==
    GpuConstructed /\ SettingsConstructed /\ CalcRest /\ ShaderRest /\ CameraConstructed

SpecGpu == InitGpu /\ [][GpuNext]_vars

InitCanvas ==
    GpuConstructedOrReady /\ SettingsConstructed /\ CalcRest /\ ShaderRest /\ CameraConstructed

SpecCanvas == InitCanvas /\ [][CanvasNext]_vars

SpecPipeline == InitGpu /\ [][PipelineNext]_vars

SpecImageGuard == InitCanvas /\ [][ImageGuardNext]_vars

\* new CrtSubpixelProcessor() with its default managers
InitFacade ==
    /\ GpuConstructed
    /\ settings = DefaultSettings
    /\ settingsConnected = FALSE
    /\ CalcRest
    /\ ShaderRest
    /\ CameraConstructed

SpecFacade == InitFacade /\ [][FacadeNext]_vars

SpecCameraExport == Init /\ [][CameraExportNext]_vars

SpecModes == Init /\ [][ModesNext]_vars

SpecInitRecovery == InitFacade /\ [][InitRecoveryNext]_vars

\* new CrtSubpixelProcessor(gpuContext, pipeline, canvasManager,
\* cameraManager, settingsManager) with a SettingsManager constructed by the
\* caller
SpecReinit == InitSettings /\ [][ReinitNext]_vars

UniformWrites == {"writeInputDimensions", "writeOutputDimensions", "writeField"}

\* Every uniform write a step makes precedes every draw of the same step.
WritesPrecedeDraw(trace) ==
    \A i \in 1..Len(trace), j \in 1..Len(trace) :
        (trace[i] \in UniformWrites /\ trace[j] = "draw") => i < j

\* C32: in ImageProcessor.render, ImageProcessor.export and every rendering
\* camera tick the uniform writes of the frame (input dimensions, output
\* dimensions, and the field when the tick interlaces) are made before the
\* draw and in the same uninterrupted step as the draw, and render's flush
\* comes before the display aspect ratio is set.
C32_UniformWritesPrecedeTheDraw ==
    [][/\ CallsOf(calls', "draw") > 0
          => /\ CallsOf(calls', "draw") = 1
             /\ WritesPrecedeDraw(calls')
             /\ ComesBefore(calls', "writeInputDimensions", "draw")
       /\ \A size \in FacadeSizes :
            RenderImage(size)
            => /\ ComesBefore(calls', "writeOutputDimensions", "draw")
               /\ ComesBefore(calls', "draw", "flush")
               /\ ComesBefore(calls', "flush", "setAspectRatio")
               /\ ~ComesBefore(calls', "setAspectRatio", "flush")
       /\ \A k \in 1..MaxImageExports, size \in FacadeSizes :
            (ImageExportBegin(k, size) /\ imageExports'[k].pc = "flush")
            => /\ ComesBefore(calls', "writeOutputDimensions", "draw")
               /\ uniforms'.inputDims = size
       /\ \A cb \in scheduled, fs \in FrameSizes :
            (ProcessVideoFrame(cb, fs, TRUE) /\ CallsOf(calls', "draw") = 1)
            => /\ uniforms'.inputDims = fs
               /\ (lastFrameSize # fs)
                  => ComesBefore(calls', "writeOutputDimensions", "draw")
               /\ settings.interlaced
                  => ComesBefore(calls', "writeField", "draw")]_vars

\* An interlaced tick of a frame of a new size has drawn after a still image
\* was exported.
C32_InterlacedTickDrewAfterResize ==
    /\ Len(calls) > 0
    /\ ComesBefore(calls, "writeOutputDimensions", "writeField")
    /\ ComesBefore(calls, "writeField", "draw")
    /\ \E k \in 1..MaxImageExports : imageExports[k].result = "blob"

\* The four setting uniforms hold the values syncToGpu writes for s.
MirrorsSettings(u, s) ==
    /\ u.orientation = (IF s.orientation = "rows" THEN 1 ELSE 0)
    /\ u.pixelDensity = s.pixelDensity
    /\ u.interlaced = (IF s.interlaced THEN 1 ELSE 0)
    /\ u.field = (IF s.field = "odd" THEN 1 ELSE 0)

\* C33: whenever the processor is initialized, the orientation, density,
\* interlaced and field uniforms equal the current settings (columns 0,
\* rows 1; the density; false 0, true 1; even 0, odd 1).
C33_UniformsMirrorSettingsWhileInitialized ==
    gpuInitialized => MirrorsSettings(uniforms, settings)

\* C34: a start() that is still suspended when stop() runs (no start()
\* called since) leaves, when it finishes, the camera inactive, no camera
\* stream live and no frame callback scheduled.
C34_StopCancelsStartInProgress ==
    [][\A stream \in startsLoading :
          (StartResume(stream) /\ ~startedSinceStop)
          => /\ cameraStream' = 0
             /\ liveStreams' = {}
             /\ scheduled' = {}]_vars

\* C35: every device that was ever created is the one the context owns or
\* has been destroyed.
C35_EveryDeviceOwnedOrDestroyed ==
    \A dev \in 1..devicesCreated : dev = root \/ releases[dev] > 0

\* C36: while the camera is running, after every tick exactly one frame
\* callback is scheduled and the stored callback id is the id of that
\* callback.
C36_EveryTickSchedulesTheNext ==
    [][\A cb \in scheduled, fs \in FrameSizes, ready \in BOOLEAN :
          (ProcessVideoFrame(cb, fs, ready) /\ cameraStream # 0)
          => /\ Cardinality(scheduled') = 1
             /\ \A next \in scheduled' : next.id = videoFrameCallbackId']_vars

\* An init() call resolves: at once on an initialized processor, or when
\* its continuation has run to the end.
InitResolves == (FacadeInitBegin /\ gpuInitialized) \/ FacadeInitResume

\* C37: an init() called after a failed one (the use cases are missing)
\* attempts the initialization again, and when an init() call resolves
\* renderImage and startCamera do not reject as not initialized.
C37_InitAgainRecovers ==
    [][/\ (FacadeInitBegin /\ processorMissing)
          => initsPending' = initsPending + 1
       /\ InitResolves
          => /\ ~processorMissing'
             /\ ~renderRejects'
             /\ ~startRejects']_vars

C39_TornDownAndBroughtUpAgain ==
    [][/\ FacadeDestroy
          => /\ cameraStream' = 0
             /\ videoFrameCallbackId' = 0
             /\ ~settingsConnected'
             /\ ~pipelineCreated'
             /\ ~canvasConfigured'
             /\ currentCanvas' = 0
             /\ ~gpuInitialized'
             /\ root' = 0
             /\ root # 0 => releases'[root] = releases[root] + 1
             /\ ~lastCall'.threw
             /\ settings' = settings
       /\ (FacadeInitResume /\ \E dev \in 1..MaxDevices : releases[dev] > 0)
          => /\ gpuInitialized'
             /\ ~processorMissing'
             /\ ~renderRejects'
             /\ settings' = settings
             /\ MirrorsSettings(uniforms', settings)]_vars

\* C40 (as stated): for every output pixel of a frame, the coordinate
\* handed to the sampler lies in the density x density group of input
\* pixels of its logical pixel and inside the input image, so that the
\* clamp to the edge leaves it as it is.
C40_SampleInsideGroupAndImage ==
    frag.run =>
        \A axis \in 1..2 :
            LET density == uniforms.pixelDensity
                group == frag.logical[axis]
            IN  /\ 2 * group * density <= frag.grouped[axis]
                /\ frag.grouped[axis] < 2 * (group + 1) * density
                /\ frag.grouped[axis] < 2 * uniforms.inputDims[axis]
                /\ frag.read[axis] = frag.grouped[axis]

\* C40 (amended): for every output pixel of a frame, the coordinate handed
\* to the sampler lies in the group of its logical pixel; the coordinate the
\* sampler reads after the clamp lies in that group and inside the image;
\* the two are the same, and inside the image, whenever the density
\* divides the input length of the axis.
C40_ClampedSampleInsideGroupAndImage ==
    frag.run =>
        \A axis \in 1..2 :
            LET density == uniforms.pixelDensity
                group == frag.logical[axis]
                len == uniforms.inputDims[axis]
            IN  /\ 2 * group * density <= frag.grouped[axis]
                /\ frag.grouped[axis] < 2 * (group + 1) * density
                /\ 2 * group * density <= frag.read[axis]
                /\ frag.read[axis] < 2 * (group + 1) * density
                /\ frag.read[axis] < 2 * len
                /\ frag.read[axis] <= frag.grouped[axis]
                /\ len % density = 0
                   => /\ frag.read[axis] = frag.grouped[axis]
                      /\ frag.grouped[axis] < 2 * len

\* A pixel of the last, partial group of a 5 x 4 frame at density 2 was
\* sampled: its coordinate along x is the right edge and was clamped, along
\* y it is the centre (3) of the second group.
C40_PartialGroupClamped ==
    /\ frag.run
    /\ uniforms.inputDims = <<5, 4>>
    /\ uniforms.pixelDensity = 2
    /\ uniforms.outputDims = <<7, 6>>
    /\ frag.logical = <<2, 1>>
    /\ frag.grouped = <<10, 6>>
    /\ frag.read = <<9, 6>>


====
